---------------------------- MODULE Spec2Model ----------------------------
(***************************************************************************)
(* Adapter Studio CLI: the config store (adapter_cli/config.py), the       *)
(* toolkit validator and discovery (validator.py, discovery.py) and the    *)
(* command dispatch (__main__.py, commands/).                              *)
(***************************************************************************)
EXTENDS Integers, Sequences, FiniteSets, TLC

(***************************************************************************)
(* Bounds of the model.                                                    *)
(***************************************************************************)
\* largest number of items of a mapping handed to save_config
MaxItems == 2

\* how many of the things a command needs may be missing or in the way
MaxMissing == 1

(***************************************************************************)
(* Python values and JSON text.                                            *)
(*                                                                         *)
(* A dict is a sequence of items in insertion order, with distinct keys.   *)
(* A key is a str or an int (kt); a value is a str, a tuple, a list or a   *)
(* pathlib.Path (vt).  Two dicts are equal when they hold the same items.  *)
(* A file's text is a sequence of tokens.  The content v of a value is a   *)
(* sequence of strings: the components of a path, the elements of a list.  *)
(***************************************************************************)
Item(kt, k, vt, v) == [kt |-> kt, k |-> k, vt |-> vt, v |-> v]

\* the toolkit path the configs of the model hold
ToolkitDir == <<"/", "opt", "adapter-toolkit">>

PyKeys == { <<"str", "toolkit_path">>, <<"int", "1">> }

PyVals ==
    { <<"str", ToolkitDir>>, <<"tuple", <<"a">> >>, <<"list", <<"a">> >>,
      <<"path", ToolkitDir>> }

Items == { Item(key[1], key[2], val[1], val[2]) : key \in PyKeys, val \in PyVals }

SameKey(a, b) == a.kt = b.kt /\ a.k = b.k

IsDict(d) == \A i, j \in 1..Len(d) : i # j => ~SameKey(d[i], d[j])

Dicts == UNION { { d \in [1..n -> Items] : IsDict(d) } : n \in 0..MaxItems }

ItemSet(d) == { d[i] : i \in 1..Len(d) }

DictEq(a, b) == ItemSet(a) = ItemSet(b)

HasKey(d, kt, k) == \E i \in 1..Len(d) : d[i].kt = kt /\ d[i].k = k

\* d[key] = value: replaces the value of an existing key, or appends the item
DictSet(d, it) ==
    IF \E i \in 1..Len(d) : SameKey(d[i], it)
      THEN [i \in 1..Len(d) |-> IF SameKey(d[i], it) THEN it ELSE d[i]]
      ELSE Append(d, it)

Tok(t, k, vt, v) == [tok |-> t, k |-> k, vt |-> vt, v |-> v]
LBrace == Tok("{", "", "", <<>>)
RBrace == Tok("}", "", "", <<>>)
EmptyArray == Tok("[]", "", "", <<>>)
Junk == Tok("junk", "", "", <<>>)
BadByte == Tok("0xff", "", "", <<>>)

\* json's encoding of a value: a str is a string, a tuple or a list an array
JsonType(vt) == IF vt = "str" THEN "string" ELSE "array"

\* json's decoding of a value: a string is a str, an array a list
PyType(jt) == IF jt = "string" THEN "str" ELSE "list"

\* json cannot encode a pathlib.Path: TypeError
Serialisable(it) == it.vt \in {"str", "tuple", "list"}

\* a key, int or str, is written as a JSON string
MemberTok(it) == Tok("member", it.k, JsonType(it.vt), it.v)

\* the chunks json.dump writes for d, up to the first item it cannot encode
RECURSIVE DumpItems(_)
DumpItems(d) ==
    IF d = <<>> THEN <<>>
    ELSE IF ~Serialisable(Head(d)) THEN <<>>
    ELSE <<MemberTok(Head(d))>> \o DumpItems(Tail(d))

DumpRaises(d) == \E i \in 1..Len(d) : ~Serialisable(d[i])

JsonDump(d) ==
    IF DumpRaises(d) THEN <<LBrace>> \o DumpItems(d)
    ELSE <<LBrace>> \o DumpItems(d) \o <<RBrace>>

\* the text decodes (open(..., "r") reads it) unless it holds an invalid byte
Decodes(text) == \A i \in 1..Len(text) : text[i] # BadByte

IsObjectText(text) ==
    /\ Len(text) >= 2
    /\ text[1] = LBrace
    /\ text[Len(text)] = RBrace
    /\ \A i \in 2..(Len(text) - 1) : text[i].tok = "member"

\* the dict of a JSON object: every key a str, a repeated key keeps its last value
RECURSIVE ObjectOf(_, _)
ObjectOf(members, acc) ==
    IF members = <<>> THEN acc
    ELSE ObjectOf(Tail(members),
                  DictSet(acc, Item("str", Head(members).k,
                                    PyType(Head(members).vt), Head(members).v)))

\* json.load of a text: the value, or the exception raised
JsonLoad(text) ==
    IF ~Decodes(text) THEN [kind |-> "UnicodeDecodeError", val |-> <<>>]
    ELSE IF IsObjectText(text)
      THEN [kind |-> "dict",
            val |-> ObjectOf(SubSeq(text, 2, Len(text) - 1), <<>>)]
    ELSE IF text = <<EmptyArray>> THEN [kind |-> "list", val |-> <<>>]
    ELSE [kind |-> "JSONDecodeError", val |-> <<>>]

(***************************************************************************)
(* The config store: ~/.adapter-studio/config.json and the temporary file  *)
(* of the save in progress.                                                *)
(***************************************************************************)
VARIABLES
    configDir,    \* whether CONFIG_DIR exists
    configFile,   \* CONFIG_FILE: [exists, text]
    tmpFile,      \* the NamedTemporaryFile of the save in progress: [exists, text]
    staleTmp,     \* whether a '.tmp' file of an earlier save is left in CONFIG_DIR
    pc,           \* position of the process inside save_config, or "idle"
    saveArg,      \* the mapping of the latest save_config call
    saveOld,      \* CONFIG_FILE as that call found it
    loadRes,      \* what the latest load_config call returned or raised
    loadOld,      \* CONFIG_FILE as that call found it
    lastOp,       \* how the latest call ended ("saving": it is under way)
    prevOp        \* how the call before the latest one ended

configVars == <<configDir, configFile, tmpFile, staleTmp, pc, saveArg, saveOld,
                loadRes, loadOld, lastOp, prevOp>>

File(text) == [exists |-> TRUE, text |-> text]
NoFile == [exists |-> FALSE, text |-> <<>>]
NoResult == [kind |-> "none", val |-> <<>>]

\* the config files the process may find when it starts
InitDicts == { d \in Dicts : Len(d) <= 1 /\ ~DumpRaises(d) }

InitTexts ==
    { JsonDump(d) : d \in InitDicts }
      \cup { <<>>, <<LBrace>>, <<Junk>>, <<BadByte>>, <<EmptyArray>>,
             <<LBrace, MemberTok(Item("str", "1", "str", ToolkitDir)),
               MemberTok(Item("str", "1", "tuple", <<"a">>)), RBrace>> }

get_config_dir == configDir' = TRUE

\* load_config on a CONFIG_FILE f: what it returns or raises, and what it leaves
LoadOf(f) ==
    IF ~f.exists THEN [res |-> [kind |-> "dict", val |-> <<>>], file |-> f]
    ELSE LET r == JsonLoad(f.text) IN
         IF r.kind = "JSONDecodeError"
           THEN [res |-> [kind |-> "dict", val |-> <<>>], file |-> NoFile]
           ELSE [res |-> r, file |-> f]

load_config ==
    /\ pc = "idle"
    /\ get_config_dir
    /\ loadRes' = LoadOf(configFile).res
    /\ configFile' = LoadOf(configFile).file
    /\ loadOld' = configFile
    /\ lastOp' = "load"
    /\ prevOp' = lastOp
    /\ UNCHANGED <<saveArg, saveOld>>
    /\ UNCHANGED <<tmpFile, staleTmp, pc>>

\* save_config opening CONFIG_FILE itself for writing, which truncates it
save_config_open_in_place(config) ==
    /\ pc = "idle"
    /\ get_config_dir
    /\ tmpFile' = File(<<>>)
    /\ configFile' = File(<<>>)
    /\ pc' = "dump"
    /\ saveArg' = config
    /\ saveOld' = configFile
    /\ loadRes' = NoResult
    /\ loadOld' = NoFile
    /\ lastOp' = "saving"
    /\ prevOp' = lastOp
    /\ UNCHANGED staleTmp

\* save_config, lines 35-43: the directory, then an empty temporary file in it
save_config_open(config) ==
    /\ pc = "idle"
    /\ get_config_dir
    /\ tmpFile' = File(<<>>)
    /\ pc' = "dump"
    /\ saveArg' = config
    /\ saveOld' = configFile
    /\ loadRes' = NoResult
    /\ loadOld' = NoFile
    /\ lastOp' = "saving"
    /\ prevOp' = lastOp
    /\ UNCHANGED <<configFile, staleTmp>>

\* line 44: json.dump writes the next chunk, or raises TypeError and leaves the
\* with block, which closes the temporary file and keeps it (delete=False)
save_config_dump ==
    /\ pc = "dump"
    /\ LET n == Len(tmpFile.text) IN
       IF n < Len(JsonDump(saveArg))
         THEN /\ tmpFile' = File(Append(tmpFile.text, JsonDump(saveArg)[n + 1]))
              /\ UNCHANGED <<pc, staleTmp, lastOp, prevOp>>
         ELSE IF DumpRaises(saveArg)
           THEN /\ pc' = "idle"
                /\ staleTmp' = TRUE
                /\ tmpFile' = NoFile
                /\ lastOp' = "save_raised"
                /\ UNCHANGED prevOp
           ELSE /\ pc' = "replace"
                /\ UNCHANGED <<tmpFile, staleTmp, lastOp, prevOp>>
    /\ UNCHANGED <<configDir, configFile, saveArg, saveOld, loadRes, loadOld>>

\* save_config removing its temporary file without moving it onto CONFIG_FILE
save_config_replace_unlinks ==
    /\ pc = "replace"
    /\ tmpFile' = NoFile
    /\ pc' = "return"
    /\ UNCHANGED <<configDir, configFile, staleTmp, saveArg, saveOld, loadRes,
                   loadOld, lastOp, prevOp>>

\* lines 47-49: os.replace moves the temporary file onto CONFIG_FILE
save_config_replace ==
    /\ pc = "replace"
    /\ configFile' = tmpFile
    /\ tmpFile' = NoFile
    /\ pc' = "return"
    /\ UNCHANGED <<configDir, staleTmp, saveArg, saveOld, loadRes, loadOld,
                   lastOp, prevOp>>

\* save_config returns to its caller
save_config_return ==
    /\ pc = "return"
    /\ pc' = "idle"
    /\ lastOp' = "save"
    /\ UNCHANGED prevOp
    /\ UNCHANGED <<configDir, configFile, tmpFile, staleTmp, saveArg, saveOld,
                   loadRes, loadOld>>

\* lines 50-56: os.replace raises; the temporary file is unlinked (an OSError of
\* the unlink is ignored) and the exception is raised again
save_config_replace_fails ==
    /\ pc = "replace"
    /\ \E unlinked \in BOOLEAN : staleTmp' = (staleTmp \/ ~unlinked)
    /\ tmpFile' = NoFile
    /\ pc' = "idle"
    /\ lastOp' = "save_raised"
    /\ UNCHANGED prevOp
    /\ UNCHANGED <<configDir, configFile, saveArg, saveOld, loadRes, loadOld>>

Crashes == {"crash_dump", "crash_replace", "crash_return"}

CrashAt(at) ==
    CASE at = "dump" -> "crash_dump"
      [] at = "replace" -> "crash_replace"
      [] OTHER -> "crash_return"

\* the process is killed inside save_config: its temporary file stays behind
crash ==
    /\ pc # "idle"
    /\ pc' = "idle"
    /\ staleTmp' = (staleTmp \/ tmpFile.exists)
    /\ tmpFile' = NoFile
    /\ lastOp' = CrashAt(pc)
    /\ UNCHANGED prevOp
    /\ UNCHANGED <<configDir, configFile, saveArg, saveOld, loadRes, loadOld>>

InitConfigStore ==
    /\ configDir \in BOOLEAN
    /\ configFile \in {NoFile} \cup
                      (IF configDir THEN { File(t) : t \in InitTexts } ELSE {})
    /\ tmpFile = NoFile
    /\ staleTmp = FALSE
    /\ pc = "idle"
    /\ saveArg = <<>>
    /\ saveOld = NoFile
    /\ loadRes = NoResult
    /\ loadOld = NoFile
    /\ lastOp = "none"
    /\ prevOp = "none"

(***************************************************************************)
(* The file system the validator and the discovery read.  A path is the    *)
(* sequence of its components; fs gives each path "absent", "file" or      *)
(* "dir".                                                                  *)
(***************************************************************************)
VARIABLES
    fs,           \* path -> "absent" | "file" | "dir"
    validArg,     \* the path of the latest validate_toolkit call (<<>>: none yet)
    validRes,     \* its result: [is_valid, errors]
    found,        \* the result of the latest find_toolkit call (<<>>: None)
    findDone      \* whether find_toolkit was called

toolkitVars == <<fs, validArg, validRes, found, findDone>>

REQUIRED_DIRS == <<"assets", "examples", "export">>
REQUIRED_FILES == <<"requirements.txt">>
REQUIRED_ASSETS == <<"base-model.pt", "tokenizer.model", "checkpoint_spec.yaml">>

\* Path.home() and the working directory of the process
Home == <<"/", "Users", "me">>
Cwd == <<"/", "work">>

COMMON_LOCATIONS ==
    << Home \o <<"Downloads">>, Home \o <<"adapter-toolkit">>,
       <<"/", "opt", "adapter-toolkit">> >>

None == <<>>

Range(seq) == { seq[i] : i \in 1..Len(seq) }

\* the characters of the file names the model uses
Chars(name) ==
    CASE name = "adapter_training_toolkit" ->
           <<"a","d","a","p","t","e","r","_","t","r","a","i","n","i","n","g",
             "_","t","o","o","l","k","i","t">>
      [] name = "adapter-toolkit" ->
           <<"a","d","a","p","t","e","r","-","t","o","o","l","k","i","t">>
      [] name = "adapter_training_toolkit_v26" ->
           <<"a","d","a","p","t","e","r","_","t","r","a","i","n","i","n","g",
             "_","t","o","o","l","k","i","t","_","v","2","6">>
      [] name = "my-adapter-toolkit" ->
           <<"m","y","-","a","d","a","p","t","e","r","-","t","o","o","l","k","i","t">>
      [] name = "adapter_toolkit" ->
           <<"a","d","a","p","t","e","r","_","t","o","o","l","k","i","t">>
      [] name = "assets" -> <<"a","s","s","e","t","s">>
      [] name = "examples" -> <<"e","x","a","m","p","l","e","s">>
      [] name = "export" -> <<"e","x","p","o","r","t">>
      [] name = "requirements.txt" ->
           <<"r","e","q","u","i","r","e","m","e","n","t","s",".","t","x","t">>

\* Python's  pattern in name  on strings
Contains(name, pattern) ==
    LET n == Chars(name)
        q == Chars(pattern)
    IN \E i \in 1..(Len(n) - Len(q) + 1) : SubSeq(n, i, i + Len(q) - 1) = q

\* the subdirectories the model puts under each common location
SubdirNames(location) ==
    IF location = COMMON_LOCATIONS[1]
      THEN {"adapter_training_toolkit_v26", "my-adapter-toolkit", "adapter_toolkit"}
    ELSE IF location = COMMON_LOCATIONS[2] THEN {"adapter_training_toolkit_v26"}
    ELSE {}

Subdirs == { Append(l, n) : l \in Range(COMMON_LOCATIONS), n \in {"adapter_training_toolkit_v26", "my-adapter-toolkit", "adapter_toolkit"} }

Candidates ==
    Range(COMMON_LOCATIONS)
      \cup { s \in Subdirs : s[Len(s)] \in SubdirNames(SubSeq(s, 1, Len(s) - 1)) }

\* what validate_toolkit looks at under a toolkit path
EntryNames == Range(REQUIRED_DIRS) \cup Range(REQUIRED_FILES)

Paths ==
    Candidates
      \cup { Append(c, e) : c \in Candidates, e \in EntryNames }
      \cup { c \o <<"assets", a>> : c \in Candidates, a \in Range(REQUIRED_ASSETS) }

Parent(p) == SubSeq(p, 1, Len(p) - 1)

is_absolute(p) == p # <<>> /\ p[1] = "/"

\* Path.expanduser(): a leading ~ becomes the home directory
expanduser(p) == IF p # <<>> /\ p[1] = "~" THEN Home \o Tail(p) ELSE p

\* Path.resolve(): a relative path is taken from the working directory
resolve(p) == IF is_absolute(p) THEN p ELSE Cwd \o p

\* the kind of the file the operating system finds at p
KindAt(p) == IF resolve(p) \in DOMAIN fs THEN fs[resolve(p)] ELSE "absent"

exists(p) == KindAt(p) # "absent"
is_dir(p) == KindAt(p) = "dir"
is_file(p) == KindAt(p) = "file"

\* Path.iterdir(): the entries of a directory
iterdir(p) == { q \in Paths : Len(q) = Len(p) + 1 /\ Parent(q) = p /\ exists(q) }

\* the directory check reporting only the entries that are not directories
RECURSIVE DirErrorsNotDirOnly(_, _)
DirErrorsNotDirOnly(toolkit_path, dirs) ==
    IF dirs = <<>> THEN <<>>
    ELSE LET dir_name == Head(dirs)
             dir_path == Append(toolkit_path, dir_name)
             here == IF exists(dir_path) /\ ~is_dir(dir_path)
                       THEN << <<dir_name, "/ exists but is not a directory">> >>
                       ELSE <<>>
         IN here \o DirErrorsNotDirOnly(toolkit_path, Tail(dirs))

\* validator.py lines 28-33: one error for each missing or non-directory entry
RECURSIVE DirErrors(_, _)
DirErrors(toolkit_path, dirs) ==
    IF dirs = <<>> THEN <<>>
    ELSE LET dir_name == Head(dirs)
             dir_path == Append(toolkit_path, dir_name)
             here == IF ~exists(dir_path)
                       THEN << <<"Missing directory: ", dir_name, "/">> >>
                     ELSE IF ~is_dir(dir_path)
                       THEN << <<dir_name, "/ exists but is not a directory">> >>
                     ELSE <<>>
         IN here \o DirErrors(toolkit_path, Tail(dirs))

\* lines 36-39
RECURSIVE FileErrors(_, _)
FileErrors(toolkit_path, files) ==
    IF files = <<>> THEN <<>>
    ELSE LET file_name == Head(files)
             here == IF ~exists(Append(toolkit_path, file_name))
                       THEN << <<"Missing file: ", file_name>> >>
                       ELSE <<>>
         IN here \o FileErrors(toolkit_path, Tail(files))

\* the asset check looking for the first asset only
AssetErrorsFirstOnly(assets_path, assets) ==
    IF assets = <<>> \/ exists(Append(assets_path, Head(assets))) THEN <<>>
    ELSE << <<"Missing asset: ", "assets", "/", Head(assets)>> >>

\* lines 42-47: the assets are looked for only when assets exists
RECURSIVE AssetErrors(_, _)
AssetErrors(assets_path, assets) ==
    IF assets = <<>> THEN <<>>
    ELSE LET asset_name == Head(assets)
             here == IF ~exists(Append(assets_path, asset_name))
                       THEN << <<"Missing asset: ", "assets", "/", asset_name>> >>
                       ELSE <<>>
         IN here \o AssetErrors(assets_path, Tail(assets))

\* validate_toolkit(toolkit_path): (is_valid, errors)
ValidateToolkit(toolkit_path) ==
    IF ~exists(toolkit_path)
      THEN [is_valid |-> FALSE,
            errors |-> << <<"Toolkit path does not exist: ">> \o toolkit_path >>]
    ELSE IF ~is_dir(toolkit_path)
      THEN [is_valid |-> FALSE,
            errors |-> << <<"Toolkit path is not a directory: ">> \o toolkit_path >>]
    ELSE LET assets_path == Append(toolkit_path, "assets")
             errors == DirErrors(toolkit_path, REQUIRED_DIRS)
                         \o FileErrors(toolkit_path, REQUIRED_FILES)
                         \o (IF exists(assets_path)
                               THEN AssetErrors(assets_path, REQUIRED_ASSETS)
                               ELSE <<>>)
         IN [is_valid |-> Len(errors) = 0, errors |-> errors]

validate_toolkit(toolkit_path) ==
    /\ validArg' = toolkit_path
    /\ validRes' = ValidateToolkit(toolkit_path)
    /\ UNCHANGED <<fs, found, findDone>>

\* the discovery testing every subdirectory, whatever its name
MatchesAnyName(name) == TRUE

\* discovery.py line 37: the name patterns of a toolkit directory
MatchesPattern(name) ==
    Contains(name, "adapter_training_toolkit") \/ Contains(name, "adapter-toolkit")

\* lines 31-40: the subdirectories of location that find_toolkit may return;
\* iterdir yields them in no particular order, and the first valid one wins
ValidSubdirs(location) ==
    IF is_dir(location)
      THEN { subdir \in iterdir(location) :
               /\ is_dir(subdir)
               /\ MatchesPattern(subdir[Len(subdir)])
               /\ ValidateToolkit(subdir).is_valid }
      ELSE {}

\* the discovery returning the first location that exists, validated or not
RECURSIVE FindFromUnvalidated(_)
FindFromUnvalidated(i) ==
    IF i > Len(COMMON_LOCATIONS) THEN {None}
    ELSE IF exists(COMMON_LOCATIONS[i]) THEN {COMMON_LOCATIONS[i]}
    ELSE FindFromUnvalidated(i + 1)

\* the discovery giving up at the first existing location that holds no toolkit
RECURSIVE FindFromFirstOnly(_)
FindFromFirstOnly(i) ==
    IF i > Len(COMMON_LOCATIONS) THEN {None}
    ELSE LET location == COMMON_LOCATIONS[i] IN
         IF ~exists(location) THEN FindFromFirstOnly(i + 1)
         ELSE IF ValidateToolkit(location).is_valid THEN {location}
         ELSE IF ValidSubdirs(location) # {} THEN ValidSubdirs(location)
         ELSE {None}

\* lines 21-42, from the i-th location on: the paths find_toolkit may return
RECURSIVE FindFrom(_)
FindFrom(i) ==
    IF i > Len(COMMON_LOCATIONS) THEN {None}
    ELSE LET location == COMMON_LOCATIONS[i] IN
         IF ~exists(location) THEN FindFrom(i + 1)
         ELSE IF ValidateToolkit(location).is_valid THEN {location}
         ELSE IF ValidSubdirs(location) # {} THEN ValidSubdirs(location)
         ELSE FindFrom(i + 1)

find_toolkit ==
    /\ found' \in FindFrom(1)
    /\ findDone' = TRUE
    /\ UNCHANGED <<fs, validArg, validRes>>

(***************************************************************************)
(* The commands.  A str is the sequence of its pieces: the components of a *)
(* path, the characters of an adapter name, one piece for any other word;  *)
(* the empty sequence is the empty string, and stands for None as well     *)
(* where the code only tests truth.  A process runs main() once.           *)
(***************************************************************************)
VARIABLES
    inv,          \* the run of main(): command, args, what it did and returned
    acc,          \* the latest accessor call: op, argument, config found, result
    more          \* whether the user goes on running commands after the first

cliVars == <<inv, more>>

accVars == <<acc>>

W(word) == <<word>>

\* str() of an int
StrInt(n) == W(ToString(n))

\* a float: its sign, which is all the code compares, and its str()
Float(sign, text) == [sign |-> sign, text |-> text]

\* float("nan"), which argparse's type=float accepts: every comparison with
\* it is False
NaN == Float(0, "nan")

\* f <= 0 and f > 0 on floats
FloatLeqZero(f) == f # NaN /\ f.sign <= 0

FloatGtZero(f) == f # NaN /\ f.sign > 0

\* an argument that may be None
NoneArg == [none |-> TRUE, val |-> 0]
Some(v) == [none |-> FALSE, val |-> v]

\* get_toolkit_path(), config.py lines 59-65: the path, None, or the exception
\* of load_config or of config.get on a value that is no dict
get_toolkit_path ==
    LET config == LoadOf(configFile).res IN
    IF config.kind # "dict" THEN [kind |-> "raise", path |-> <<>>]
    ELSE IF \E i \in 1..Len(config.val) :
              config.val[i].kt = "str" /\ config.val[i].k = "toolkit_path"
      THEN LET it == config.val[CHOOSE i \in 1..Len(config.val) :
                         config.val[i].kt = "str" /\ config.val[i].k = "toolkit_path"]
           IN IF it.v = <<>> THEN [kind |-> "none", path |-> <<>>]
              ELSE IF it.vt = "str" THEN [kind |-> "path", path |-> it.v]
              ELSE [kind |-> "raise", path |-> <<>>]
    ELSE [kind |-> "none", path |-> <<>>]

IsPrefix(q, p) == Len(q) <= Len(p) /\ SubSeq(p, 1, Len(q)) = q

\* Path.mkdir(parents=True, exist_ok=True): FileExistsError or
\* NotADirectoryError when the path or one of its parents is a file
MkdirRaises(p) == \E q \in DOMAIN fs : IsPrefix(q, p) /\ fs[q] = "file"

Mkdir(f, p) == [q \in DOMAIN f |-> IF IsPrefix(q, p) THEN "dir" ELSE f[q]]

\* a removal that takes the parent directory along
RmtreeParent(f, p) == [q \in DOMAIN f |-> IF IsPrefix(Parent(p), q) THEN "absent" ELSE f[q]]

\* shutil.rmtree(p)
Rmtree(f, p) == [q \in DOMAIN f |-> IF IsPrefix(p, q) THEN "absent" ELSE f[q]]

\* os.access(p, os.R_OK): every file of the model is readable
access_R_OK(p) == exists(p)

\* what a command has decided when it reaches its try block, or gives up before:
\* abort is "none", the error it printed before a bare return, or "raise"
Plan(abort, read, newfs, cmd, cwd, timeout, checkpoint_dir, created) ==
    [abort |-> abort, read |-> read, fs |-> newfs, cmd |-> cmd, cwd |-> cwd,
     timeout |-> timeout, checkpoint_dir |-> checkpoint_dir, created |-> created]

Abort(reason, read, newfs) == Plan(reason, read, newfs, <<>>, <<>>, 0, <<>>, FALSE)

\* how subprocess.run ends: the child's exit code, the signal that killed it
\* (a negative returncode), or an exception
ExitCodes == {0, 1, 2, 255}

ChildOutcomes ==
    { [kind |-> "exit", code |-> c] : c \in ExitCodes }
      \cup { [kind |-> "signal", code |-> 9] }
      \cup { [kind |-> k, code |-> 0] :
               k \in {"TimeoutExpired", "KeyboardInterrupt", "FileNotFoundError",
                      "PermissionError", "OSError"} }

NoChild == [kind |-> "none", code |-> 0]

\* a command's return value: None (a bare return), an int, or an exception
ReturnNone == [kind |-> "None", code |-> 0]
ReturnInt(c) == [kind |-> "int", code |-> c]
Raised == [kind |-> "raise", code |-> 0]

\* a try block that turns every child failure into 1
ReturnedOneOnFailure(plan, child) ==
    IF plan.abort = "raise" THEN Raised
    ELSE IF plan.abort # "none" THEN ReturnNone
    ELSE IF child.kind = "exit" /\ child.code = 0 THEN ReturnInt(0)
    ELSE ReturnInt(1)

\* a try block that treats a keyboard interruption as success
ReturnedZeroOnInterrupt(plan, child) ==
    IF plan.abort = "raise" THEN Raised
    ELSE IF plan.abort # "none" THEN ReturnNone
    ELSE IF child.kind = "exit" THEN ReturnInt(child.code)
    ELSE IF child.kind = "signal" THEN ReturnInt(0 - child.code)
    ELSE IF child.kind = "KeyboardInterrupt" THEN ReturnInt(0)
    ELSE ReturnInt(1)

\* the try block of the five commands: result.returncode, or 1 on an exception
Returned(plan, child) ==
    IF plan.abort = "raise" THEN Raised
    ELSE IF plan.abort # "none" THEN ReturnNone
    ELSE IF child.kind = "exit" THEN ReturnInt(child.code)
    ELSE IF child.kind = "signal" THEN ReturnInt(0 - child.code)
    ELSE ReturnInt(1)

\* main(), __main__.py lines 437-459: the results of init and setup are
\* dropped; sys.exit(exit_code) runs for exit_code != 0, where None exits
\* with status 0 and an int with its low byte; an exception exits with 1
ExitStatus(command, ret) ==
    IF ret.kind = "raise" THEN 1
    ELSE IF command \in {"init", "setup"} THEN 0
    ELSE IF ret.kind = "None" THEN 0
    ELSE ret.code % 256

NoInv ==
    [command |-> "none", args |-> <<>>, abort |-> "none", cmds |-> <<>>,
     cwd |-> <<>>, timeout |-> 0, child |-> NoChild, ret |-> ReturnNone,
     status |-> 0]

\* a process runs main() once; the user may go on with further commands
CanRun == inv = NoInv \/ more

\* main() running one command: the config read, the directories made or
\* removed, the child spawned, the value returned and the exit status
Ran(command, args, plan, child, ret, newfs) ==
    /\ inv' = [command |-> command, args |-> args, abort |-> plan.abort,
               cmds |-> IF plan.abort = "none" THEN <<plan.cmd>> ELSE <<>>,
               cwd |-> plan.cwd, timeout |-> plan.timeout, child |-> child,
               ret |-> ret, status |-> ExitStatus(command, ret)]
    /\ fs' = newfs
    /\ IF plan.read
         THEN configDir' = TRUE /\ configFile' = LoadOf(configFile).file
         ELSE UNCHANGED <<configDir, configFile>>
    /\ UNCHANGED <<tmpFile, staleTmp, pc, saveArg, saveOld, loadRes, loadOld,
                   lastOp, prevOp>>
    /\ UNCHANGED <<validArg, validRes, found, findDone, acc, more>>

\* a command without cleanup: the child runs only when the try block is reached
RunPlain(command, args, plan) ==
    /\ CanRun
    /\ IF plan.abort = "none"
         THEN \E child \in ChildOutcomes :
                Ran(command, args, plan, child, Returned(plan, child), plan.fs)
         ELSE Ran(command, args, plan, NoChild, Returned(plan, NoChild), plan.fs)

\* a cleanup that runs only when the child exits with a non-zero code
CleansUpOnExitOnly(plan, child) ==
    /\ plan.created
    /\ child.kind = "exit" /\ child.code # 0

\* a training command: a checkpoint directory it created is removed when the
\* child fails, times out or is interrupted
CleansUp(plan, child) ==
    /\ plan.created
    /\ \/ child.kind = "exit" /\ child.code # 0
       \/ child.kind \in {"signal", "TimeoutExpired", "KeyboardInterrupt"}

RunTraining(command, args, plan) ==
    /\ CanRun
    /\ IF plan.abort = "none"
         THEN \E child \in ChildOutcomes :
                Ran(command, args, plan, child, Returned(plan, child),
                    IF CleansUp(plan, child)
                      THEN Rmtree(plan.fs, plan.checkpoint_dir) ELSE plan.fs)
         ELSE Ran(command, args, plan, NoChild, Returned(plan, NoChild), plan.fs)

\* the timeouts handed to subprocess.run
GENERATION_TIMEOUT == 300
EXPORT_TIMEOUT == 1800
TRAINING_TIMEOUT == 86400

\* the venv check made on the toolkit directory itself
VenvPythonIsToolkit(toolkit_path) == toolkit_path

VenvPython(toolkit_path) == toolkit_path \o <<"venv", "bin", "python">>

\* the options demo and generate forward, demo.py lines 36-50, generate.py
\* lines 71-85
GenerationOptions(args) ==
    (IF args.precision # <<>> THEN <<W("--precision"), args.precision>> ELSE <<>>)
      \o (IF ~args.temperature.none
            THEN <<W("--temperature"), W(args.temperature.val.text)>> ELSE <<>>)
      \o (IF ~args.top_k.none THEN <<W("--top-k"), StrInt(args.top_k.val)>> ELSE <<>>)
      \o (IF ~args.max_new_tokens.none
            THEN <<W("--max-new-tokens"), StrInt(args.max_new_tokens.val)>> ELSE <<>>)
      \o (IF ~args.batch_size.none
            THEN <<W("--batch-size"), StrInt(args.batch_size.val)>> ELSE <<>>)
      \o (IF args.compile_model THEN <<W("--compile-model")>> ELSE <<>>)
      \o (IF ~args.num_draft_tokens.none
            THEN <<W("--num_draft_tokens"), StrInt(args.num_draft_tokens.val)>>
            ELSE <<>>)

\* run_demo, demo.py lines 13-53
DemoPlan(args) ==
    LET toolkit == get_toolkit_path
        toolkit_path == toolkit.path
        venv_python == VenvPython(toolkit_path)
    IN
    IF toolkit.kind = "raise" THEN Abort("raise", TRUE, fs)
    ELSE IF toolkit.kind = "none" THEN Abort("not_configured", TRUE, fs)
    ELSE IF ~exists(venv_python) THEN Abort("no_venv", TRUE, fs)
    ELSE IF args.prompt = <<>> THEN Abort("flag_required", TRUE, fs)
    ELSE Plan("none", TRUE, fs,
              <<venv_python, W("-m"), W("examples.generate")>>
                \o <<W("--prompt"), args.prompt>>
                \o GenerationOptions(args),
              toolkit_path, GENERATION_TIMEOUT, <<>>, FALSE)

\* run_generate, generate.py lines 13-88: the checkpoints are used as given
GeneratePlan(args) ==
    LET toolkit == get_toolkit_path
        toolkit_path == toolkit.path
        venv_python == VenvPython(toolkit_path)
    IN
    IF toolkit.kind = "raise" THEN Abort("raise", TRUE, fs)
    ELSE IF toolkit.kind = "none" THEN Abort("not_configured", TRUE, fs)
    ELSE IF ~exists(venv_python) THEN Abort("no_venv", TRUE, fs)
    ELSE IF args.prompt = <<>> THEN Abort("flag_required", TRUE, fs)
    ELSE IF args.checkpoint # <<>> /\ ~exists(args.checkpoint)
      THEN Abort("path_missing", TRUE, fs)
    ELSE IF args.draft_checkpoint # <<>> /\ ~exists(args.draft_checkpoint)
      THEN Abort("path_missing", TRUE, fs)
    ELSE Plan("none", TRUE, fs,
              <<venv_python, W("-m"), W("examples.generate")>>
                \o <<W("--prompt"), args.prompt>>
                \o (IF args.checkpoint # <<>>
                      THEN <<W("--checkpoint"), args.checkpoint>> ELSE <<>>)
                \o (IF args.draft_checkpoint # <<>>
                      THEN <<W("--draft-checkpoint"), args.draft_checkpoint>>
                      ELSE <<>>)
                \o GenerationOptions(args),
              toolkit_path, GENERATION_TIMEOUT, <<>>, FALSE)

\* the numeric checks of the training commands, train_adapter.py lines 16-28,
\* train_draft.py lines 15-27
NumericOutOfRange(args) ==
    \/ args.epochs < 1 \/ args.epochs > 100
    \/ FloatLeqZero(args.learning_rate)
    \/ args.batch_size < 1 \/ args.batch_size > 128
    \/ args.warmup_epochs.val < 0 \/ args.warmup_epochs.val > args.epochs

\* the optional parameters and the flags both training commands forward,
\* train_adapter.py lines 119-133, train_draft.py lines 100-114
TrainingOptions(args) ==
    (IF ~args.warmup_epochs.none
       THEN <<W("--warmup-epochs"), StrInt(args.warmup_epochs.val)>> ELSE <<>>)
      \o (IF ~args.gradient_accumulation_steps.none
            THEN <<W("--gradient-accumulation-steps"),
                   StrInt(args.gradient_accumulation_steps.val)>> ELSE <<>>)
      \o (IF ~args.weight_decay.none
            THEN <<W("--weight-decay"), W(args.weight_decay.val.text)>> ELSE <<>>)
      \o (IF ~args.clip_grad_norm.none
            THEN <<W("--clip-grad-norm"), W(args.clip_grad_norm.val.text)>> ELSE <<>>)
      \o (IF ~args.max_sequence_length.none
            THEN <<W("--max-sequence-length"), StrInt(args.max_sequence_length.val)>>
            ELSE <<>>)
      \o (IF ~args.loss_update_frequency.none
            THEN <<W("--loss-update-frequency"),
                   StrInt(args.loss_update_frequency.val)>> ELSE <<>>)
      \o (IF ~args.checkpoint_frequency.none
            THEN <<W("--checkpoint-frequency"),
                   StrInt(args.checkpoint_frequency.val)>> ELSE <<>>)

\* datetime.now().strftime("%Y%m%d_%H%M%S") behind "demo_"
DemoCheckpointName == "demo_20260101_120000"

\* train_adapter.py lines 105-143: the command line
TrainAdapterCmd(venv_python, args, train_data, eval_data, checkpoint_dir) ==
    <<venv_python, W("-m"), W("examples.train_adapter")>>
      \o <<W("--train-data"), train_data>>
      \o (IF eval_data # <<>> THEN <<W("--eval-data"), eval_data>> ELSE <<>>)
      \o <<W("--checkpoint-dir"), checkpoint_dir>>
      \o <<W("--epochs"), StrInt(args.epochs)>>
      \o <<W("--learning-rate"), W(args.learning_rate.text)>>
      \o <<W("--batch-size"), StrInt(args.batch_size)>>
      \o <<W("--precision"), args.precision>>
      \o TrainingOptions(args)
      \o (IF args.activation_checkpointing
            THEN <<W("--activation-checkpointing")>> ELSE <<>>)
      \o (IF args.compile_model THEN <<W("--compile-model")>> ELSE <<>>)
      \o (IF args.fixed_sized_sequences THEN <<W("--fixed-sized-sequences")>> ELSE <<>>)
      \o (IF args.pack_sequences THEN <<W("--pack-sequences")>> ELSE <<>>)

\* run_train_adapter, train_adapter.py lines 16-146
TrainAdapterPlan(args) ==
    LET toolkit == get_toolkit_path
        toolkit_path == toolkit.path
        venv_python == VenvPython(toolkit_path)
        toy_dataset_path == toolkit_path \o <<"examples", "toy_dataset">>
        toy_train == Append(toy_dataset_path, "playwriting_train.jsonl")
        toy_eval == Append(toy_dataset_path, "playwriting_valid.jsonl")
        demo_dir == toolkit_path \o <<"checkpoints", DemoCheckpointName>>
        train_data == resolve(expanduser(args.train_data))
        checkpoint_dir == resolve(expanduser(args.checkpoint_dir))
        eval_data == IF args.eval_data # <<>>
                       THEN resolve(expanduser(args.eval_data)) ELSE <<>>
    IN
    IF NumericOutOfRange(args) THEN Abort("out_of_range", FALSE, fs)
    ELSE IF toolkit.kind = "raise" THEN Abort("raise", TRUE, fs)
    ELSE IF toolkit.kind = "none" THEN Abort("not_configured", TRUE, fs)
    ELSE IF ~exists(venv_python) THEN Abort("no_venv", TRUE, fs)
    ELSE IF args.demo
      THEN IF ~exists(toy_train) \/ ~exists(toy_eval)
             THEN Abort("path_missing", TRUE, fs)
           ELSE IF MkdirRaises(resolve(demo_dir)) THEN Abort("raise", TRUE, fs)
           ELSE Plan("none", TRUE, Mkdir(fs, resolve(demo_dir)),
                     TrainAdapterCmd(venv_python, args, toy_train, toy_eval, demo_dir),
                     toolkit_path, TRAINING_TIMEOUT, resolve(demo_dir), TRUE)
    ELSE IF args.train_data = <<>> THEN Abort("flag_required", TRUE, fs)
    ELSE IF args.checkpoint_dir = <<>> THEN Abort("flag_required", TRUE, fs)
    ELSE IF ~exists(train_data) THEN Abort("path_missing", TRUE, fs)
    ELSE IF ~is_file(train_data) \/ ~access_R_OK(train_data)
      THEN Abort("not_readable", TRUE, fs)
    ELSE IF MkdirRaises(checkpoint_dir) THEN Abort("raise", TRUE, fs)
    ELSE IF eval_data # <<>> /\ ~exists(eval_data)
      THEN Abort("path_missing", TRUE, Mkdir(fs, checkpoint_dir))
    ELSE IF eval_data # <<>> /\ (~is_file(eval_data) \/ ~access_R_OK(eval_data))
      THEN Abort("not_readable", TRUE, Mkdir(fs, checkpoint_dir))
    ELSE Plan("none", TRUE, Mkdir(fs, checkpoint_dir),
              TrainAdapterCmd(venv_python, args, train_data, eval_data, checkpoint_dir),
              toolkit_path, TRAINING_TIMEOUT, checkpoint_dir, ~exists(checkpoint_dir))

\* train_draft.py lines 83-126: the command line
TrainDraftCmd(venv_python, args, checkpoint, train_data, eval_data, checkpoint_dir) ==
    <<venv_python, W("-m"), W("examples.train_draft_model")>>
      \o (IF checkpoint # <<>> THEN <<W("--checkpoint"), checkpoint>> ELSE <<>>)
      \o <<W("--train-data"), train_data>>
      \o (IF eval_data # <<>> THEN <<W("--eval-data"), eval_data>> ELSE <<>>)
      \o <<W("--checkpoint-dir"), checkpoint_dir>>
      \o <<W("--epochs"), StrInt(args.epochs)>>
      \o <<W("--learning-rate"), W(args.learning_rate.text)>>
      \o <<W("--batch-size"), StrInt(args.batch_size)>>
      \o <<W("--target-precision"), args.target_precision>>
      \o <<W("--draft-precision"), args.draft_precision>>
      \o TrainingOptions(args)
      \o (IF args.activation_checkpointing
            THEN <<W("--activation-checkpointing")>> ELSE <<>>)
      \o (IF args.compile_target_model THEN <<W("--compile-target-model")>> ELSE <<>>)
      \o (IF args.compile_draft_model THEN <<W("--compile-draft-model")>> ELSE <<>>)
      \o (IF args.fixed_sized_sequences THEN <<W("--fixed-sized-sequences")>> ELSE <<>>)
      \o (IF args.pack_sequences THEN <<W("--pack-sequences")>> ELSE <<>>)

\* run_train_draft, train_draft.py lines 15-129
TrainDraftPlan(args) ==
    LET toolkit == get_toolkit_path
        toolkit_path == toolkit.path
        venv_python == VenvPython(toolkit_path)
        checkpoint == IF args.checkpoint # <<>>
                        THEN resolve(expanduser(args.checkpoint)) ELSE <<>>
        train_data == resolve(expanduser(args.train_data))
        checkpoint_dir == resolve(expanduser(args.checkpoint_dir))
        eval_data == IF args.eval_data # <<>>
                       THEN resolve(expanduser(args.eval_data)) ELSE <<>>
    IN
    IF NumericOutOfRange(args) THEN Abort("out_of_range", FALSE, fs)
    ELSE IF toolkit.kind = "raise" THEN Abort("raise", TRUE, fs)
    ELSE IF toolkit.kind = "none" THEN Abort("not_configured", TRUE, fs)
    ELSE IF ~exists(venv_python) THEN Abort("no_venv", TRUE, fs)
    ELSE IF args.train_data = <<>> THEN Abort("flag_required", TRUE, fs)
    ELSE IF args.checkpoint_dir = <<>> THEN Abort("flag_required", TRUE, fs)
    ELSE IF checkpoint # <<>> /\ ~exists(checkpoint)
      THEN Abort("path_missing", TRUE, fs)
    ELSE IF ~exists(train_data) THEN Abort("path_missing", TRUE, fs)
    ELSE IF ~is_file(train_data) \/ ~access_R_OK(train_data)
      THEN Abort("not_readable", TRUE, fs)
    ELSE IF MkdirRaises(checkpoint_dir) THEN Abort("raise", TRUE, fs)
    ELSE Plan("none", TRUE, Mkdir(fs, checkpoint_dir),
              TrainDraftCmd(venv_python, args, checkpoint, train_data, eval_data,
                            checkpoint_dir),
              toolkit_path, TRAINING_TIMEOUT, checkpoint_dir, ~exists(checkpoint_dir))

\* export.py line 12: the longest adapter name
MAX_ADAPTER_NAME == 255

\* the characters \w matches, among those the model uses
WordChars == {"a", "b", "_", "1"}

\* re.match(r"^\w+$", name): $ matches at the end and before a final newline
MatchesWordRegex(name) ==
    /\ Len(name) >= 1
    /\ \/ \A i \in 1..Len(name) : name[i] \in WordChars
       \/ /\ Len(name) >= 2
          /\ name[Len(name)] = "\n"
          /\ \A i \in 1..(Len(name) - 1) : name[i] \in WordChars

\* export.py lines 10-14
_validate_adapter_name(name) ==
    IF name = <<>> \/ Len(name) > MAX_ADAPTER_NAME THEN FALSE
    ELSE MatchesWordRegex(name)

\* the command line built from the checkpoint as given, not resolved
ExportCmdUnresolved(venv_python, args, checkpoint, output_dir, draft_checkpoint) ==
    <<venv_python, W("-m"), W("export.export_fmadapter")>>
      \o <<W("--adapter-name"), args.adapter_name>>
      \o <<W("--checkpoint"), args.checkpoint>>
      \o <<W("--output-dir"), output_dir>>
      \o (IF draft_checkpoint # <<>>
            THEN <<W("--draft-checkpoint"), draft_checkpoint>> ELSE <<>>)
      \o (IF args.author # <<>> THEN <<W("--author"), args.author>> ELSE <<>>)
      \o (IF args.description # <<>>
            THEN <<W("--description"), args.description>> ELSE <<>>)

\* run_export, export.py lines 72-86: the command line
ExportCmd(venv_python, args, checkpoint, output_dir, draft_checkpoint) ==
    <<venv_python, W("-m"), W("export.export_fmadapter")>>
      \o <<W("--adapter-name"), args.adapter_name>>
      \o <<W("--checkpoint"), checkpoint>>
      \o <<W("--output-dir"), output_dir>>
      \o (IF draft_checkpoint # <<>>
            THEN <<W("--draft-checkpoint"), draft_checkpoint>> ELSE <<>>)
      \o (IF args.author # <<>> THEN <<W("--author"), args.author>> ELSE <<>>)
      \o (IF args.description # <<>>
            THEN <<W("--description"), args.description>> ELSE <<>>)

\* run_export, export.py lines 19-89: up to the try block
ExportPlan(args) ==
    LET toolkit == get_toolkit_path
        toolkit_path == toolkit.path
        venv_python == VenvPython(toolkit_path)
        checkpoint == resolve(expanduser(args.checkpoint))
        output_dir == resolve(expanduser(args.output_dir))
        draft_checkpoint ==
            IF args.draft_checkpoint # <<>>
              THEN resolve(expanduser(args.draft_checkpoint)) ELSE <<>>
    IN
    IF toolkit.kind = "raise" THEN Abort("raise", TRUE, fs)
    ELSE IF toolkit.kind = "none" THEN Abort("not_configured", TRUE, fs)
    ELSE IF ~exists(venv_python) THEN Abort("no_venv", TRUE, fs)
    ELSE IF args.adapter_name = <<>> THEN Abort("flag_required", TRUE, fs)
    ELSE IF ~_validate_adapter_name(args.adapter_name)
      THEN Abort("name_invalid", TRUE, fs)
    ELSE IF args.checkpoint = <<>> THEN Abort("flag_required", TRUE, fs)
    ELSE IF args.output_dir = <<>> THEN Abort("flag_required", TRUE, fs)
    ELSE IF ~exists(checkpoint) THEN Abort("path_missing", TRUE, fs)
    ELSE IF MkdirRaises(output_dir) THEN Abort("raise", TRUE, fs)
    ELSE IF draft_checkpoint # <<>> /\ ~exists(draft_checkpoint)
      THEN Abort("path_missing", TRUE, Mkdir(fs, output_dir))
    ELSE Plan("none", TRUE, Mkdir(fs, output_dir),
              ExportCmd(venv_python, args, checkpoint, output_dir, draft_checkpoint),
              toolkit_path, EXPORT_TIMEOUT, <<>>, FALSE)

run_demo(args) == RunPlain("demo", args, DemoPlan(args))

run_generate(args) == RunPlain("generate", args, GeneratePlan(args))

run_train_adapter(args) == RunTraining("train-adapter", args, TrainAdapterPlan(args))

run_train_draft(args) == RunTraining("train-draft", args, TrainDraftPlan(args))

run_export(args) == RunPlain("export", args, ExportPlan(args))

\* sys.executable
sys_executable == <<"/", "usr", "bin", "python3">>

\* how a subprocess.run(check=True) of setup ends
SetupOutcomes ==
    { [kind |-> "exit", code |-> 0], [kind |-> "CalledProcessError", code |-> 1],
      [kind |-> "FileNotFoundError", code |-> 0] }

\* platform.system()
Systems == {"Darwin", "Linux", "Windows"}

\* setup.py lines 50-55: the interpreter of the new environment
SetupPython(system, venv_path) ==
    IF system = "Windows" THEN venv_path \o <<"Scripts", "python.exe">>
    ELSE venv_path \o <<"bin", "python">>

\* python -m venv: the new environment with its interpreter
MakeVenv(f, python_path) ==
    [q \in DOMAIN f |->
        IF q = python_path THEN "file"
        ELSE IF IsPrefix(q, Parent(python_path)) THEN "dir"
        ELSE f[q]]

\* run_setup, setup.py lines 11-90, on a platform and given how its three
\* children end: the commands run in order, with the outcome of each
SetupRun(system, venv, pip, check) ==
    LET toolkit == get_toolkit_path
        toolkit_path == toolkit.path
        requirements_file == Append(toolkit_path, "requirements.txt")
        venv_path == Append(toolkit_path, "venv")
        python_path == SetupPython(system, venv_path)
        venv_cmd == <<sys_executable, W("-m"), W("venv"), venv_path>>
        pip_cmd == <<python_path, W("-m"), W("pip"), W("install"), W("-r"),
                     requirements_file>>
        check_cmd == <<python_path, W("-c"),
                       W("import torch; import tamm; import sentencepiece")>>
        made == MakeVenv(fs, resolve(SetupPython(system, venv_path)))
        End(abort, cmds, children, newfs) ==
            [abort |-> abort, cmds |-> cmds, children |-> children,
             child |-> IF children = <<>> THEN NoChild ELSE children[Len(children)],
             fs |-> newfs]
    IN
    IF toolkit.kind = "raise" THEN End("raise", <<>>, <<>>, fs)
    ELSE IF toolkit.kind = "none" THEN End("not_configured", <<>>, <<>>, fs)
    ELSE IF ~exists(requirements_file)
      THEN End("requirements_missing", <<>>, <<>>, fs)
    ELSE IF venv.kind = "CalledProcessError"
      THEN End("venv_failed", <<venv_cmd>>, <<venv>>, fs)
    ELSE IF venv.kind # "exit" THEN End("raise", <<venv_cmd>>, <<venv>>, fs)
    ELSE IF pip.kind = "CalledProcessError"
      THEN End("install_failed", <<venv_cmd, pip_cmd>>, <<venv, pip>>, made)
    ELSE IF pip.kind # "exit"
      THEN End("raise", <<venv_cmd, pip_cmd>>, <<venv, pip>>, made)
    ELSE IF check.kind \in {"exit", "CalledProcessError"}
      THEN End("none", <<venv_cmd, pip_cmd, check_cmd>>, <<venv, pip, check>>, made)
    ELSE End("raise", <<venv_cmd, pip_cmd, check_cmd>>, <<venv, pip, check>>, made)

\* what main() running setup leaves: the record of the run and the files
SetupDone(system, end) ==
    LET ret == IF end.abort = "raise" THEN Raised ELSE ReturnNone IN
    /\ inv' = [command |-> "setup", args |-> <<>>, abort |-> end.abort,
               cmds |-> end.cmds, cwd |-> <<>>, timeout |-> 0,
               child |-> end.child, ret |-> ret,
               status |-> ExitStatus("setup", ret),
               system |-> system, children |-> end.children]
    /\ fs' = end.fs

run_setup(system) ==
    /\ CanRun
    /\ \E venv, pip, check \in SetupOutcomes :
          SetupDone(system, SetupRun(system, venv, pip, check))
    /\ configDir' = TRUE
    /\ configFile' = LoadOf(configFile).file
    /\ UNCHANGED <<tmpFile, staleTmp, pc, saveArg, saveOld, loadRes, loadOld,
                   lastOp, prevOp>>
    /\ UNCHANGED <<validArg, validRes, found, findDone, acc, more>>

(***************************************************************************)
(* The path accessors of the config store, called on their own.            *)
(***************************************************************************)
NoAcc == [op |-> "none", arg |-> <<>>, old |-> NoFile, res |-> [kind |-> "none", path |-> <<>>]]

\* set_toolkit_path(path) on a CONFIG_FILE f, config.py lines 68-72: the file
\* it leaves, or the exception of load_config or of the item assignment
SetToolkitPathOf(f, path) ==
    LET loaded == LoadOf(f)
        item == Item("str", "toolkit_path", "str", resolve(expanduser(path)))
    IN
    IF loaded.res.kind = "dict"
      THEN [kind |-> "ok", file |-> File(JsonDump(DictSet(loaded.res.val, item)))]
      ELSE [kind |-> "raise", file |-> loaded.file]

\* one call of get_toolkit_path()
call_get_toolkit_path ==
    /\ acc' = [op |-> "get", arg |-> <<>>, old |-> configFile, res |-> get_toolkit_path]
    /\ configDir' = TRUE
    /\ configFile' = LoadOf(configFile).file
    /\ UNCHANGED <<tmpFile, staleTmp, pc, saveArg, saveOld, loadRes, loadOld,
                   lastOp, prevOp>>

\* one call of set_toolkit_path(path)
set_toolkit_path(path) ==
    /\ acc' = [op |-> "set", arg |-> path, old |-> configFile,
               res |-> [kind |-> SetToolkitPathOf(configFile, path).kind,
                        path |-> resolve(expanduser(path))]]
    /\ configDir' = TRUE
    /\ configFile' = SetToolkitPathOf(configFile, path).file
    /\ UNCHANGED <<tmpFile, staleTmp, pc, saveArg, saveOld, loadRes, loadOld,
                   lastOp, prevOp>>

\* what input() returns is a str, here the tuple of its characters or path
\* pieces; the end of the input (EOFError) or Ctrl-C (KeyboardInterrupt) is Eof
Eof == <<"^D">>

Blank == " "

\* str.strip(): leading and trailing whitespace removed
RECURSIVE LStrip(_)
LStrip(s) == IF s # <<>> /\ Head(s) = Blank THEN LStrip(Tail(s)) ELSE s

RECURSIVE RStrip(_)
RStrip(s) ==
    IF s # <<>> /\ s[Len(s)] = Blank THEN RStrip(SubSeq(s, 1, Len(s) - 1)) ELSE s

Strip(s) == LStrip(RStrip(s))

\* str.lower() on the letters the answers are made of
LowerChar(c) == IF c = "Y" THEN "y" ELSE IF c = "N" THEN "n" ELSE c

Lower(s) == [i \in 1..Len(s) |-> LowerChar(s[i])]

\* Path(toolkit_input).expanduser().resolve() raises ValueError on an embedded
\* null byte, init.py lines 57-62
NullByte == "\\0"

ResolveRaises(path) == NullByte \in Range(path)

\* a manual entry loop that saves the first entry it can resolve, whether or
\* not validate_toolkit accepts it
RECURSIVE ManualEntryUnvalidated(_, _)
ManualEntryUnvalidated(entries, prompts) ==
    IF entries = <<>>
      THEN [abort |-> "cancelled", path |-> <<>>, prompts |-> prompts + 1]
    ELSE LET toolkit_input == Strip(Head(entries)) IN
         IF toolkit_input = <<>> \/ ResolveRaises(toolkit_input)
           THEN ManualEntryUnvalidated(Tail(entries), prompts + 1)
           ELSE [abort |-> "none", path |-> resolve(expanduser(toolkit_input)),
                 prompts |-> prompts + 1]

\* the manual entry loop of run_init, init.py lines 43-74: the first entry
\* that validates is saved; an empty, unresolvable or invalid entry asks
\* again; the input ends (EOFError, KeyboardInterrupt) after the last entry.
\* prompts counts the calls of input("Enter path to toolkit: ")
RECURSIVE ManualEntry(_, _)
ManualEntry(entries, prompts) ==
    IF entries = <<>>
      THEN [abort |-> "cancelled", path |-> <<>>, prompts |-> prompts + 1]
    ELSE LET toolkit_input == Strip(Head(entries))
             toolkit_path == resolve(expanduser(toolkit_input))
         IN IF toolkit_input = <<>> THEN ManualEntry(Tail(entries), prompts + 1)
            ELSE IF ResolveRaises(toolkit_input)
              THEN ManualEntry(Tail(entries), prompts + 1)
            ELSE IF ValidateToolkit(toolkit_path).is_valid
              THEN [abort |-> "none", path |-> toolkit_path, prompts |-> prompts + 1]
            ELSE ManualEntry(Tail(entries), prompts + 1)

\* whether run_init gets as far as find_toolkit(), init.py lines 15-26
InitSearches(answers) ==
    LET existing_path == get_toolkit_path IN
    /\ existing_path.kind # "raise"
    /\ existing_path.kind = "path" =>
          /\ answers.change # Eof
          /\ Lower(Strip(answers.change)) = <<"y">>

\* run_init, init.py lines 10-74, given the user's answers and what
\* find_toolkit returned: the path it saves, or why it saves none
InitRun(answers, discovered_toolkit) ==
    LET existing_path == get_toolkit_path
        stop(why) == [abort |-> why, path |-> <<>>, prompts |-> 0]
    IN
    IF existing_path.kind = "raise" THEN stop("raise")
    ELSE IF existing_path.kind = "path" /\ answers.change = Eof THEN stop("raise")
    ELSE IF existing_path.kind = "path" /\ Lower(Strip(answers.change)) # <<"y">>
      THEN stop("kept")
    ELSE IF discovered_toolkit # None /\ answers.use_found = Eof THEN stop("raise")
    ELSE IF discovered_toolkit # None /\ Lower(Strip(answers.use_found)) = <<"y">>
      THEN [abort |-> "none", path |-> discovered_toolkit, prompts |-> 0]
    ELSE ManualEntry(answers.entries, 0)

\* what main() running init leaves: the record of the run and the config
\* file; _save_and_confirm calls set_toolkit_path
InitDone(answers, searched, discovered_toolkit, end, loaded) ==
    LET ret == IF end.abort = "raise" THEN Raised ELSE ReturnNone IN
    /\ inv' = [command |-> "init", args |-> answers, abort |-> end.abort,
               cmds |-> <<>>, cwd |-> <<>>, timeout |-> 0, child |-> NoChild,
               ret |-> ret, status |-> ExitStatus("init", ret),
               searched |-> searched,
               discovered_toolkit |-> discovered_toolkit,
               prompts |-> end.prompts, saved |-> end.path]
    /\ configFile' = IF end.abort = "none"
                       THEN SetToolkitPathOf(loaded, end.path).file
                       ELSE loaded

\* find_toolkit() as far as run_init calls it
InitDiscovers(searched) == IF searched THEN FindFrom(1) ELSE {None}

InitFrom(answers, searched) ==
    \E discovered_toolkit \in InitDiscovers(searched) :
        InitDone(answers, searched, discovered_toolkit,
                 InitRun(answers, discovered_toolkit), LoadOf(configFile).file)

run_init(answers) ==
    /\ CanRun
    /\ InitFrom(answers, InitSearches(answers))
    /\ configDir' = TRUE
    /\ UNCHANGED <<tmpFile, staleTmp, pc, saveArg, saveOld, loadRes, loadOld,
                   lastOp, prevOp>>
    /\ UNCHANGED <<fs, validArg, validRes, found, findDone, acc, more>>

(***************************************************************************)
(* Specifications.                                                         *)
(***************************************************************************)
vars == <<configVars, toolkitVars, cliVars, accVars>>

Kinds == {"absent", "file", "dir"}

\* no config directory yet, nothing called
ConfigStoreIdle ==
    /\ configDir = FALSE
    /\ configFile = NoFile
    /\ tmpFile = NoFile
    /\ staleTmp = FALSE
    /\ pc = "idle"
    /\ saveArg = <<>>
    /\ saveOld = NoFile
    /\ loadRes = NoResult
    /\ loadOld = NoFile
    /\ lastOp = "none"
    /\ prevOp = "none"

ToolkitIdle ==
    /\ validArg = None
    /\ validRes = [is_valid |-> FALSE, errors |-> <<>>]
    /\ found = None
    /\ findDone = FALSE

\* an entry exists only inside a directory
Consistent(f) ==
    \A p \in DOMAIN f : (f[p] # "absent" /\ Parent(p) \in DOMAIN f) => f[Parent(p)] = "dir"

\* the config store alone: loads, saves and crashes of the process
InitConfig ==
    /\ InitConfigStore
    /\ ToolkitIdle
    /\ inv = NoInv
    /\ acc = NoAcc
    /\ more = FALSE
    /\ fs = [p \in Paths |-> "absent"]

NextConfig ==
    \/ load_config /\ UNCHANGED <<toolkitVars, cliVars, accVars>>
    \/ \E config \in Dicts : save_config_open(config) /\ UNCHANGED <<toolkitVars, cliVars, accVars>>
    \/ save_config_dump /\ UNCHANGED <<toolkitVars, cliVars, accVars>>
    \/ save_config_replace /\ UNCHANGED <<toolkitVars, cliVars, accVars>>
    \/ save_config_return /\ UNCHANGED <<toolkitVars, cliVars, accVars>>
    \/ save_config_replace_fails /\ UNCHANGED <<toolkitVars, cliVars, accVars>>
    \/ crash /\ UNCHANGED <<toolkitVars, cliVars, accVars>>

SpecConfig == InitConfig /\ [][NextConfig]_vars

\* the validator on one directory tree of every shape
Subject == COMMON_LOCATIONS[2]

SubjectPaths ==
    {Subject}
      \cup { Append(Subject, e) : e \in EntryNames }
      \cup { Subject \o <<"assets", a>> : a \in Range(REQUIRED_ASSETS) }

InitValidate ==
    /\ ConfigStoreIdle
    /\ ToolkitIdle
    /\ inv = NoInv
    /\ acc = NoAcc
    /\ more = FALSE
    /\ \E f \in [SubjectPaths -> Kinds] :
          /\ Consistent(f)
          /\ fs = [p \in Paths |-> IF p \in SubjectPaths THEN f[p] ELSE "absent"]

NextValidate ==
    /\ \E toolkit_path \in Candidates : validate_toolkit(toolkit_path)
    /\ UNCHANGED <<configVars, cliVars, accVars>>

SpecValidate == InitValidate /\ [][NextValidate]_vars

\* the discovery on the common locations and their subdirectories
Shapes == {"absent", "file", "empty", "partial", "valid"}

\* the kind of path p when the candidate c it lies in has shape sh
ShapeKind(c, p, sh) ==
    CASE sh = "absent" -> "absent"
      [] sh = "file" -> IF p = c THEN "file" ELSE "absent"
      [] sh = "empty" -> IF p = c THEN "dir" ELSE "absent"
      [] sh = "partial" ->
           IF p = c \o <<"assets", "checkpoint_spec.yaml">> THEN "absent"
           ELSE IF Len(p) = Len(c) + 1 /\ p[Len(p)] \in Range(REQUIRED_FILES) THEN "file"
           ELSE IF Len(p) = Len(c) + 2 THEN "file"
           ELSE "dir"
      [] OTHER ->
           IF Len(p) = Len(c) + 1 /\ p[Len(p)] \in Range(REQUIRED_FILES) THEN "file"
           ELSE IF Len(p) = Len(c) + 2 THEN "file"
           ELSE "dir"

\* the candidate whose tree holds p: the longest candidate that is a prefix of p
Owner(p) ==
    CHOOSE c \in Candidates :
        /\ Len(c) <= Len(p) /\ SubSeq(p, 1, Len(c)) = c
        /\ \A d \in Candidates :
              (Len(d) <= Len(p) /\ SubSeq(p, 1, Len(d)) = d) => Len(d) <= Len(c)

InitDiscovery ==
    /\ ConfigStoreIdle
    /\ ToolkitIdle
    /\ inv = NoInv
    /\ acc = NoAcc
    /\ more = FALSE
    /\ \E sh \in [Candidates -> Shapes] :
          /\ \A c \in Range(COMMON_LOCATIONS) : sh[c] # "partial"
          /\ \A c \in Candidates \ Range(COMMON_LOCATIONS) :
                /\ sh[c] # "empty"
                /\ sh[Parent(c)] \in {"absent", "file"} => sh[c] = "absent"
          /\ fs = [p \in Paths |-> ShapeKind(Owner(p), p, sh[Owner(p)])]

NextDiscovery ==
    /\ find_toolkit
    /\ UNCHANGED <<configVars, cliVars, accVars>>

SpecDiscovery == InitDiscovery /\ [][NextDiscovery]_vars

\* the accessors on config files written by hand or by the tool
AccessorPaths ==
    { ToolkitDir, Home \o <<"adapter-toolkit">>, <<"~", "adapter-toolkit">>, <<"~">>,
      <<"toolkit">>, <<"Downloads", "toolkit">> }

AccessorConfigs ==
    { NoFile, File(<<Junk>>), File(<<BadByte>>), File(<<EmptyArray>>),
      File(JsonDump(<<>>)),
      File(JsonDump(<<Item("str", "toolkit_path", "list", <<"a">>)>>)) }
      \cup { File(JsonDump(<<Item("str", "toolkit_path", "str", p)>>)) :
               p \in AccessorPaths \cup {<<>>} }
      \cup { File(JsonDump(<<Item("str", "1", "str", <<"a">>),
                             Item("str", "toolkit_path", "str", p)>>)) :
               p \in AccessorPaths }

InitAccessors ==
    /\ configDir \in BOOLEAN
    /\ configFile \in (IF configDir THEN AccessorConfigs ELSE {NoFile})
    /\ tmpFile = NoFile
    /\ staleTmp = FALSE
    /\ pc = "idle"
    /\ saveArg = <<>>
    /\ saveOld = NoFile
    /\ loadRes = NoResult
    /\ loadOld = NoFile
    /\ lastOp = "none"
    /\ prevOp = "none"
    /\ ToolkitIdle
    /\ fs = [p \in Paths |-> "absent"]
    /\ inv = NoInv
    /\ acc = NoAcc
    /\ more = FALSE

NextAccessors ==
    \/ call_get_toolkit_path /\ UNCHANGED <<toolkitVars, cliVars>>
    \/ \E path \in AccessorPaths : set_toolkit_path(path) /\ UNCHANGED <<toolkitVars, cliVars>>

SpecAccessors == InitAccessors /\ [][NextAccessors]_vars

\* the commands, each run once on a toolkit and on user files that lack at
\* most MaxMissing of the things a run needs
T == ToolkitDir

ToyDataset == T \o <<"examples", "toy_dataset">>

CliPaths ==
    { T, Append(T, "requirements.txt"), Append(T, "venv"), T \o <<"venv", "bin">>,
      VenvPython(T), T \o <<"venv", "Scripts">>, SetupPython("Windows", Append(T, "venv")),
      Append(T, "examples"), ToyDataset,
      Append(ToyDataset, "playwriting_train.jsonl"),
      Append(ToyDataset, "playwriting_valid.jsonl"),
      Append(T, "checkpoints"), T \o <<"checkpoints", DemoCheckpointName>>,
      Cwd, Append(Cwd, "ckpt.pt"), Append(Cwd, "draft.pt"),
      Append(Cwd, "train.jsonl"), Append(Cwd, "eval.jsonl"), Append(Cwd, "data"),
      Append(Cwd, "ckpts"), Append(Cwd, "out"), Cwd \o <<"out", "x">>,
      Home, Append(Home, "ckpt.pt") }

\* everything in place, no checkpoint or output directory yet
Baseline ==
    [p \in CliPaths |->
        IF p \in { Append(T, "checkpoints"), T \o <<"checkpoints", DemoCheckpointName>>,
                   T \o <<"venv", "Scripts">>, SetupPython("Windows", Append(T, "venv")),
                   Append(Cwd, "ckpts"), Append(Cwd, "out"), Cwd \o <<"out", "x">> }
          THEN "absent"
        ELSE IF p \in { Append(T, "requirements.txt"), VenvPython(T),
                        Append(ToyDataset, "playwriting_train.jsonl"),
                        Append(ToyDataset, "playwriting_valid.jsonl"),
                        Append(Cwd, "ckpt.pt"), Append(Cwd, "draft.pt"),
                        Append(Cwd, "train.jsonl"), Append(Cwd, "eval.jsonl"),
                        Append(Home, "ckpt.pt") }
          THEN "file"
        ELSE "dir"]

Deviation(paths, kind) == [paths |-> paths, kind |-> kind]

Deviations ==
    { Deviation({Append(T, "venv"), T \o <<"venv", "bin">>, VenvPython(T)}, "absent"),
      Deviation({Append(T, "requirements.txt")}, "absent"),
      Deviation({Append(ToyDataset, "playwriting_valid.jsonl")}, "absent"),
      Deviation({Append(Cwd, "ckpt.pt")}, "absent"),
      Deviation({Append(Home, "ckpt.pt")}, "absent"),
      Deviation({Append(Cwd, "draft.pt")}, "absent"),
      Deviation({Append(Cwd, "train.jsonl")}, "absent"),
      Deviation({Append(Cwd, "eval.jsonl")}, "absent"),
      Deviation({Append(Cwd, "ckpts")}, "dir"),
      Deviation({Append(Cwd, "out")}, "dir"),
      Deviation({Append(Cwd, "out")}, "file"),
      Deviation({Append(T, "checkpoints"), T \o <<"checkpoints", DemoCheckpointName>>},
                "dir") }

FsWith(D) ==
    [p \in CliPaths |->
        IF \E d \in D : p \in d.paths
          THEN (CHOOSE d \in D : p \in d.paths).kind
          ELSE Baseline[p]]

\* the config files a command may find
CliConfigs ==
    { NoFile,
      File(JsonDump(<<Item("str", "toolkit_path", "str", ToolkitDir)>>)),
      File(JsonDump(<<Item("str", "toolkit_path", "list", <<"a">>)>>)),
      File(<<Junk>>),
      File(<<BadByte>>) }

\* the Namespace argparse hands to demo and generate, __main__.py lines 17-59
GenerationDefaults ==
    [prompt |-> W("hi"), checkpoint |-> <<>>, draft_checkpoint |-> <<>>,
     precision |-> W("bf16-mixed"), temperature |-> Some(Float(1, "1.0")),
     top_k |-> Some(50), max_new_tokens |-> Some(50), batch_size |-> Some(1),
     compile_model |-> FALSE, num_draft_tokens |-> Some(5)]

DemoArgs ==
    { [GenerationDefaults EXCEPT !.prompt = p, !.compile_model = c, !.temperature = t] :
        p \in {<<>>, W("hi")}, c \in BOOLEAN,
        t \in {Some(Float(1, "1.0")), Some(Float(0, "0.0"))} }

GenerateArgs ==
    { [GenerationDefaults EXCEPT !.prompt = p, !.checkpoint = c,
                                 !.draft_checkpoint = d, !.compile_model = m] :
        p \in {<<>>, W("hi")}, c \in {<<>>, <<"ckpt.pt">>, <<"~", "ckpt.pt">>},
        d \in {<<>>, <<"draft.pt">>}, m \in BOOLEAN }

\* the Namespace of train-adapter, __main__.py lines 62-148 and 334-354
TrainAdapterDefaults ==
    [demo |-> FALSE, train_data |-> <<"train.jsonl">>, eval_data |-> <<>>,
     checkpoint_dir |-> <<"ckpts">>, epochs |-> 2,
     learning_rate |-> Float(1, "0.001"), warmup_epochs |-> Some(1),
     batch_size |-> 4, gradient_accumulation_steps |-> Some(1),
     activation_checkpointing |-> FALSE, precision |-> W("bf16-mixed"),
     compile_model |-> FALSE, weight_decay |-> Some(Float(1, "0.01")),
     clip_grad_norm |-> Some(Float(1, "1.0")), max_sequence_length |-> NoneArg,
     fixed_sized_sequences |-> FALSE, pack_sequences |-> FALSE,
     loss_update_frequency |-> Some(3), checkpoint_frequency |-> Some(1)]

\* the Namespace of train-draft, __main__.py lines 151-248 and 361-383
TrainDraftDefaults ==
    [checkpoint |-> <<>>, train_data |-> <<"train.jsonl">>, eval_data |-> <<>>,
     checkpoint_dir |-> <<"ckpts">>, epochs |-> 2,
     learning_rate |-> Float(1, "0.001"), warmup_epochs |-> Some(1),
     batch_size |-> 4, gradient_accumulation_steps |-> Some(1),
     activation_checkpointing |-> FALSE, target_precision |-> W("bf16-mixed"),
     compile_target_model |-> FALSE, draft_precision |-> W("bf16-mixed"),
     compile_draft_model |-> FALSE, weight_decay |-> Some(Float(1, "0.01")),
     clip_grad_norm |-> Some(Float(1, "1.0")), max_sequence_length |-> NoneArg,
     fixed_sized_sequences |-> FALSE, pack_sequences |-> FALSE,
     loss_update_frequency |-> Some(3), checkpoint_frequency |-> Some(1)]

\* numeric options in and out of range
NumericVariants(defaults) ==
    { [defaults EXCEPT !.epochs = e] : e \in {0, 1, 100, 101} }
      \cup { [defaults EXCEPT !.learning_rate = l] :
               l \in {Float(0, "0.0"), Float(-1, "-0.001"), NaN} }
      \cup { [defaults EXCEPT !.batch_size = b] : b \in {0, 1, 128, 129} }
      \cup { [defaults EXCEPT !.warmup_epochs = Some(w)] : w \in {-1, 0, 2, 3} }
      \cup { [defaults EXCEPT !.max_sequence_length = Some(512),
                              !.pack_sequences = TRUE] }

TrainAdapterArgs ==
    { [TrainAdapterDefaults EXCEPT !.demo = m, !.train_data = t, !.eval_data = e,
                                   !.checkpoint_dir = c] :
        m \in BOOLEAN, t \in {<<>>, <<"train.jsonl">>, <<"data">>},
        e \in {<<>>, <<"eval.jsonl">>, <<"data">>}, c \in {<<>>, <<"ckpts">>} }
      \cup NumericVariants(TrainAdapterDefaults)
      \cup { [TrainAdapterDefaults EXCEPT !.compile_model = TRUE] }

TrainDraftArgs ==
    { [TrainDraftDefaults EXCEPT !.checkpoint = k, !.train_data = t, !.eval_data = e,
                                 !.checkpoint_dir = c] :
        k \in {<<>>, <<"~", "ckpt.pt">>}, t \in {<<>>, <<"train.jsonl">>, <<"data">>},
        e \in {<<>>, <<"eval.jsonl">>}, c \in {<<>>, <<"ckpts">>} }
      \cup NumericVariants(TrainDraftDefaults)
      \cup { [TrainDraftDefaults EXCEPT !.compile_draft_model = TRUE] }

\* adapter names at the edges of what _validate_adapter_name lets through:
\* a trailing newline, a blank, a newline inside, the longest name and one
\* character more
AdapterNames ==
    { <<"a", "\n">>, <<"a", " ">>, <<"a", "\n", "b">>, <<"\n">>, <<"_", "1">>,
      [i \in 1..MAX_ADAPTER_NAME |-> "a"], [i \in 1..(MAX_ADAPTER_NAME + 1) |-> "a"] }

\* the Namespace of export, __main__.py lines 386-425
ExportArgs ==
    { [adapter_name |-> n, checkpoint |-> c, draft_checkpoint |-> d,
       output_dir |-> o, author |-> a, description |-> t] :
        n \in {<<>>, <<"a", "b">>, <<"a", "-">>},
        c \in {<<>>, <<"ckpt.pt">>, <<"~", "ckpt.pt">>},
        d \in {<<>>, <<"draft.pt">>},
        o \in {<<>>, <<"out">>, <<"out", "x">>},
        a \in {<<>>, W("3P developer")},
        t \in {<<>>, W("my adapter")} }
      \cup { [adapter_name |-> n, checkpoint |-> <<"ckpt.pt">>,
              draft_checkpoint |-> <<>>, output_dir |-> <<"out">>,
              author |-> <<>>, description |-> <<>>] : n \in AdapterNames }

InitCli ==
    /\ configDir \in BOOLEAN
    /\ configFile \in (IF configDir THEN CliConfigs ELSE {NoFile})
    /\ tmpFile = NoFile
    /\ staleTmp = FALSE
    /\ pc = "idle"
    /\ saveArg = <<>>
    /\ saveOld = NoFile
    /\ loadRes = NoResult
    /\ loadOld = NoFile
    /\ lastOp = "none"
    /\ prevOp = "none"
    /\ ToolkitIdle
    /\ \E D \in SUBSET Deviations : Cardinality(D) <= MaxMissing /\ fs = FsWith(D)
    /\ inv = NoInv
    /\ acc = NoAcc
    /\ more = FALSE

NextCli ==
    \/ \E system \in Systems : run_setup(system)
    \/ \E args \in DemoArgs : run_demo(args)
    \/ \E args \in GenerateArgs : run_generate(args)
    \/ \E args \in TrainAdapterArgs : run_train_adapter(args)
    \/ \E args \in TrainDraftArgs : run_train_draft(args)
    \/ \E args \in ExportArgs : run_export(args)

SpecCli == InitCli /\ [][NextCli]_vars

\* a session: init, setup and the five commands in any order, on a machine
\* with up to two toolkit directories
OtherToolkit == COMMON_LOCATIONS[2]

ToolkitTree(c) ==
    {c} \cup { Append(c, e) : e \in EntryNames }
      \cup { c \o <<"assets", a>> : a \in Range(REQUIRED_ASSETS) }

VenvTree == { Append(T, "venv"), T \o <<"venv", "bin">>, VenvPython(T) }

SessionPaths ==
    CliPaths \cup ToolkitTree(T) \cup ToolkitTree(OtherToolkit)
      \cup { Append(T, "my_ckpts") }

SessionFs(shape, other, venv) ==
    [p \in SessionPaths |->
        IF p \in ToolkitTree(OtherToolkit) THEN ShapeKind(OtherToolkit, p, other)
        ELSE IF p \in ToolkitTree(T) THEN ShapeKind(T, p, shape)
        ELSE IF p \in VenvTree THEN (IF venv THEN Baseline[p] ELSE "absent")
        ELSE IF p = Append(T, "my_ckpts") THEN "absent"
        ELSE Baseline[p]]

SessionConfigs ==
    { NoFile, File(<<Junk>>),
      File(JsonDump(<<Item("str", "toolkit_path", "str", ToolkitDir)>>)) }

\* what the user types at the prompts of init: the answers to "change it?"
\* and "use this toolkit?", and the paths entered by hand before the input ends
SessionEntries ==
    { <<>>, << Cwd, <<"~", "adapter-toolkit">> >>,
      << <<Blank>>, <<"a", NullByte>>, <<Blank>> \o ToolkitDir >> }

Answers(change, use_found, entries) ==
    [change |-> change, use_found |-> use_found, entries |-> entries]

SessionAnswers ==
    { Answers(Eof, <<"n">>, <<>>), Answers(<<"y">>, <<"y">>, <<>>),
      Answers(<<"Y">>, <<Blank, "Y">>, <<>>),
      Answers(<<"y", "e", "s">>, <<"n">>, <<>>),
      Answers(<<"y">>, Eof, <<>>) }
      \cup { Answers(<<"y", Blank>>, <<"n">>, e) : e \in SessionEntries }

\* the session runs on one machine
SessionSystems == {"Darwin"}

SessionDemoArgs == { GenerationDefaults }

SessionGenerateArgs == { [GenerationDefaults EXCEPT !.checkpoint = <<"ckpt.pt">>] }

SessionTrainAdapterArgs == { [TrainAdapterDefaults EXCEPT !.demo = TRUE] }

SessionTrainDraftArgs ==
    { [TrainDraftDefaults EXCEPT !.checkpoint_dir = Append(T, "my_ckpts")] }

SessionExportArgs ==
    { [adapter_name |-> <<"a", "b">>, checkpoint |-> <<"ckpt.pt">>,
       draft_checkpoint |-> <<>>, output_dir |-> <<"out">>,
       author |-> W("3P developer"), description |-> <<>>] }

InitSession ==
    /\ configDir \in BOOLEAN
    /\ configFile \in (IF configDir THEN SessionConfigs ELSE {NoFile})
    /\ tmpFile = NoFile
    /\ staleTmp = FALSE
    /\ pc = "idle"
    /\ saveArg = <<>>
    /\ saveOld = NoFile
    /\ loadRes = NoResult
    /\ loadOld = NoFile
    /\ lastOp = "none"
    /\ prevOp = "none"
    /\ ToolkitIdle
    /\ \E shape \in {"valid", "partial"}, other \in {"valid", "absent"}, venv \in BOOLEAN :
          fs = SessionFs(shape, other, venv)
    /\ inv = NoInv
    /\ acc = NoAcc
    /\ more = TRUE

NextSession ==
    \/ \E answers \in SessionAnswers : run_init(answers)
    \/ \E system \in SessionSystems : run_setup(system)
    \/ \E args \in SessionDemoArgs : run_demo(args)
    \/ \E args \in SessionGenerateArgs : run_generate(args)
    \/ \E args \in SessionTrainAdapterArgs : run_train_adapter(args)
    \/ \E args \in SessionTrainDraftArgs : run_train_draft(args)
    \/ \E args \in SessionExportArgs : run_export(args)

SpecSession == InitSession /\ [][NextSession]_vars

(***************************************************************************)
(* The config store's properties.                                          *)
(***************************************************************************)
EmptyDict == [kind |-> "dict", val |-> <<>>]

\* CONFIG_FILE as a completed save_config(saveArg) leaves it
NewFile == File(JsonDump(saveArg))

\* C1: save_config is atomic with respect to crashes: while a save_config is
\* under way, and after it was killed at any point, CONFIG_FILE is either
\* what the call found or the complete dump of the new mapping, never a
\* partial or empty text, and the load_config that follows a crash returns
\* what it returns on one of these two files.
C1_SaveAtomic ==
    /\ (pc # "idle" \/ lastOp \in Crashes) =>
          \/ configFile = saveOld
          \/ ~DumpRaises(saveArg) /\ configFile = NewFile
    /\ (lastOp = "load" /\ prevOp \in Crashes) =>
          \/ loadRes = LoadOf(saveOld).res
          \/ ~DumpRaises(saveArg) /\ loadRes = LoadOf(NewFile).res

\* a save killed after its temporary file was written in full and before
\* os.replace: the following load returns the previous, non-empty config
C1_Witness ==
    /\ lastOp = "load" /\ prevOp = "crash_replace"
    /\ saveOld.exists /\ JsonLoad(saveOld.text).kind = "dict"
    /\ loadRes.kind = "dict" /\ loadRes.val # <<>>
    /\ ~DictEq(loadRes.val, saveArg)
    /\ loadRes = LoadOf(saveOld).res

\* a save killed after os.replace: the following load returns the new config
C1_WitnessNew ==
    /\ lastOp = "load" /\ prevOp = "crash_return"
    /\ saveOld # NewFile
    /\ loadRes = LoadOf(NewFile).res

\* the keys are strings and json decodes every value to what was encoded
JsonNative(d) == \A i \in 1..Len(d) : d[i].kt = "str" /\ d[i].vt \in {"str", "list"}

\* C2 as stated: for every mapping x, save_config(x) followed by load_config()
\* returns a mapping equal to x.
C2_RoundTripAnyMapping ==
    (lastOp = "load" /\ prevOp = "save") =>
        loadRes.kind = "dict" /\ DictEq(loadRes.val, saveArg)

\* C2, amended: for every mapping x whose keys are strings and whose values
\* are values json decodes to what it encoded, save_config(x) followed by
\* load_config() returns a mapping equal to x, whatever CONFIG_FILE held before.
C2_RoundTrip ==
    (lastOp = "load" /\ prevOp = "save" /\ JsonNative(saveArg)) =>
        loadRes.kind = "dict" /\ DictEq(loadRes.val, saveArg)

\* a non-empty mapping saved over a corrupt file and loaded back
C2_Witness ==
    /\ lastOp = "load" /\ prevOp = "save"
    /\ JsonNative(saveArg) /\ Len(saveArg) = 1
    /\ saveOld.exists /\ JsonLoad(saveOld.text).kind = "JSONDecodeError"
    /\ loadRes.kind = "dict" /\ DictEq(loadRes.val, saveArg)

\* CONFIG_FILE exists and its content is not JSON
Corrupt(f) == f.exists /\ JsonLoad(f.text).kind \in {"JSONDecodeError", "UnicodeDecodeError"}

\* C3: load_config on a corrupt CONFIG_FILE returns the empty mapping and
\* deletes the file; on an absent CONFIG_FILE it returns the empty mapping and
\* creates no file (so every later load_config finds the file absent and
\* returns the empty mapping too).
C3_CorruptIsReset ==
    (lastOp = "load" /\ (Corrupt(loadOld) \/ ~loadOld.exists)) =>
        loadRes = EmptyDict /\ ~configFile.exists

(***************************************************************************)
(* The validator's and the discovery's properties.                         *)
(***************************************************************************)
Mentions(error, name) == \E i \in 1..Len(error) : error[i] = name

Called == validArg # None

\* C6: validate_toolkit on an existing directory that has no assets entry
\* returns is_valid = False and an error list holding an error that mentions
\* assets, whatever else the directory holds.
C6_MissingAssetsReported ==
    (Called /\ is_dir(validArg) /\ ~exists(Append(validArg, "assets"))) =>
        /\ ~validRes.is_valid
        /\ \E i \in 1..Len(validRes.errors) : Mentions(validRes.errors[i], "assets")

\* a directory that lacks nothing but assets: the only error is the one on assets
C6_Witness ==
    /\ Called /\ is_dir(validArg) /\ ~exists(Append(validArg, "assets"))
    /\ is_dir(Append(validArg, "examples")) /\ is_dir(Append(validArg, "export"))
    /\ exists(Append(validArg, "requirements.txt"))
    /\ validRes = [is_valid |-> FALSE,
                   errors |-> << <<"Missing directory: ", "assets", "/">> >>]

\* the structure of a toolkit directory, read off the file system
WellFormed(path) ==
    /\ is_dir(path)
    /\ is_dir(Append(path, "assets"))
    /\ is_dir(Append(path, "examples"))
    /\ is_dir(Append(path, "export"))
    /\ exists(Append(path, "requirements.txt"))
    /\ exists(path \o <<"assets", "base-model.pt">>)
    /\ exists(path \o <<"assets", "tokenizer.model">>)
    /\ exists(path \o <<"assets", "checkpoint_spec.yaml">>)

\* C7: validate_toolkit(path) returns is_valid = True exactly when its error
\* list is empty, and exactly when path is an existing directory in which
\* assets, examples and export are directories, requirements.txt exists and
\* the three assets exist under assets.
C7_ValidIffWellFormed ==
    Called =>
        /\ validRes.is_valid <=> (validRes.errors = <<>>)
        /\ validRes.is_valid <=> WellFormed(validArg)

\* a directory that lacks just its last asset is refused with that one error
C7_Witness ==
    /\ Called /\ ~validRes.is_valid
    /\ is_dir(Append(validArg, "assets"))
    /\ is_dir(Append(validArg, "examples")) /\ is_dir(Append(validArg, "export"))
    /\ exists(Append(validArg, "requirements.txt"))
    /\ exists(validArg \o <<"assets", "base-model.pt">>)
    /\ exists(validArg \o <<"assets", "tokenizer.model">>)
    /\ validRes.errors = << <<"Missing asset: ", "assets", "/", "checkpoint_spec.yaml">> >>

\* a well-formed directory is accepted
C7_WitnessValid == Called /\ validRes.is_valid /\ WellFormed(validArg)

NamedLikeToolkit(path) ==
    \/ Contains(path[Len(path)], "adapter_training_toolkit")
    \/ Contains(path[Len(path)], "adapter-toolkit")

\* location or one of its immediate pattern-named subdirectories is a toolkit
Passing(location) ==
    /\ exists(location)
    /\ \/ WellFormed(location)
       \/ \E subdir \in Paths :
            /\ Len(subdir) = Len(location) + 1 /\ Parent(subdir) = location
            /\ NamedLikeToolkit(subdir) /\ WellFormed(subdir)

\* C8: find_toolkit returns None when none of the common locations exists,
\* and returns None if and only if neither an existing location nor any of
\* its immediate pattern-named subdirectories passes validate_toolkit.
C8_NoneIffNothingPasses ==
    findDone =>
        /\ (\A l \in Range(COMMON_LOCATIONS) : ~exists(l)) => found = None
        /\ found = None <=> (\A l \in Range(COMMON_LOCATIONS) : ~Passing(l))

\* the first location exists and holds no toolkit, the second one does
C8_Witness ==
    /\ findDone /\ found # None
    /\ exists(COMMON_LOCATIONS[1]) /\ ~Passing(COMMON_LOCATIONS[1])
    /\ found = COMMON_LOCATIONS[2]

\* every location exists, none passes: None
C8_WitnessNone ==
    /\ findDone /\ found = None
    /\ \A l \in Range(COMMON_LOCATIONS) : exists(l)
    /\ \E subdir \in Paths :
          /\ Parent(subdir) \in Range(COMMON_LOCATIONS) /\ Parent(subdir) # subdir
          /\ exists(subdir) /\ NamedLikeToolkit(subdir)

\* the position of the common location path lies in (0: in none)
LocationOf(path) ==
    IF \E i \in 1..Len(COMMON_LOCATIONS) :
         COMMON_LOCATIONS[i] = path \/ COMMON_LOCATIONS[i] = Parent(path)
      THEN CHOOSE i \in 1..Len(COMMON_LOCATIONS) :
             COMMON_LOCATIONS[i] = path \/ COMMON_LOCATIONS[i] = Parent(path)
      ELSE 0

\* C9: find_toolkit returns the first passing candidate: what it returns
\* passes validate_toolkit, is a common location or a pattern-named immediate
\* subdirectory of one, no earlier location passes, and a subdirectory is
\* returned only when its location itself does not pass.
C9_FirstPassingCandidate ==
    (findDone /\ found # None) =>
        /\ WellFormed(found)
        /\ LocationOf(found) # 0
        /\ \A i \in 1..(LocationOf(found) - 1) : ~Passing(COMMON_LOCATIONS[i])
        /\ found \notin Range(COMMON_LOCATIONS) =>
             /\ NamedLikeToolkit(found)
             /\ ~WellFormed(Parent(found))

\* a well-formed subdirectory without the pattern in its name is passed over
\* for a toolkit under a later location
C9_Witness ==
    /\ findDone
    /\ WellFormed(Append(COMMON_LOCATIONS[1], "adapter_toolkit"))
    /\ ~Passing(COMMON_LOCATIONS[1])
    /\ found = Append(COMMON_LOCATIONS[2], "adapter_training_toolkit_v26")

\* a toolkit under the first location wins over well-formed later locations
C9_WitnessEarlier ==
    /\ findDone
    /\ found = Append(COMMON_LOCATIONS[1], "my-adapter-toolkit")
    /\ WellFormed(COMMON_LOCATIONS[2]) /\ WellFormed(COMMON_LOCATIONS[3])

(***************************************************************************)
(* The commands' properties.                                               *)
(***************************************************************************)
RelayCommands == {"demo", "generate", "train-adapter", "train-draft", "export"}

\* the errors a command handles by printing a message and returning
HandledAborts ==
    {"not_configured", "no_venv", "flag_required", "out_of_range", "path_missing"}

HandledSetupAborts ==
    {"not_configured", "requirements_missing", "venv_failed", "install_failed"}

HandledError ==
    \/ inv.command \in RelayCommands /\ inv.abort \in HandledAborts
    \/ inv.command = "setup" /\ inv.abort \in HandledSetupAborts

\* C4: whenever one of the five commands aborts on a handled error (toolkit
\* not configured, venv missing, required flag empty, numeric option out of
\* range, referenced path missing), or setup aborts on one of its own, the
\* command returns a non-zero status and the process exits with a non-zero code
C4_HandledErrorIsNonZero ==
    HandledError =>
        /\ inv.ret.kind = "int"
        /\ inv.ret.code # 0
        /\ inv.status # 0

\* C5: when the child of demo, generate, train-adapter, train-draft or export
\* runs to completion with exit code c, the command returns exactly c and the
\* process ends with exit code c
C5_ExitCodeRelayed ==
    (inv.command \in RelayCommands /\ inv.child.kind = "exit") =>
        /\ inv.ret = ReturnInt(inv.child.code)
        /\ inv.status = inv.child.code

C5_Witness ==
    /\ inv.command = "train-adapter"
    /\ inv.child = [kind |-> "exit", code |-> 2]
    /\ inv.status = 2

C5_WitnessZero ==
    /\ inv.command = "export"
    /\ inv.child = [kind |-> "exit", code |-> 0]
    /\ inv.status = 0

\* the command line C10 describes, from the arguments and the config alone
ExpectedExportCmd ==
    LET toolkit_path == get_toolkit_path.path
        args == inv.args
    IN
    << toolkit_path \o <<"venv", "bin", "python">>, <<"-m">>,
       <<"export.export_fmadapter">>,
       <<"--adapter-name">>, args.adapter_name,
       <<"--checkpoint">>, resolve(expanduser(args.checkpoint)),
       <<"--output-dir">>, resolve(expanduser(args.output_dir)) >>
      \o (IF args.draft_checkpoint # <<>>
            THEN << <<"--draft-checkpoint">>, resolve(expanduser(args.draft_checkpoint)) >>
            ELSE <<>>)
      \o (IF args.author # <<>> THEN << <<"--author">>, args.author >> ELSE <<>>)
      \o (IF args.description # <<>>
            THEN << <<"--description">>, args.description >> ELSE <<>>)

\* the premises of C10: export ran with a configured toolkit whose venv python
\* exists, a valid adapter name and an existing checkpoint
ExportReady ==
    /\ inv.command = "export"
    /\ get_toolkit_path.kind = "path"
    /\ exists(VenvPython(get_toolkit_path.path))
    /\ _validate_adapter_name(inv.args.adapter_name)
    /\ inv.args.checkpoint # <<>>
    /\ exists(resolve(expanduser(inv.args.checkpoint)))

ExportSpawnsExpected ==
    /\ inv.cmds = <<ExpectedExportCmd>>
    /\ inv.cwd = get_toolkit_path.path

\* C10 as stated: under its premises run_export spawns exactly that command
C10_ExportSpawnsAlways == ExportReady => ExportSpawnsExpected

\* C10: under its premises, with an output directory that is given and can
\* be created (neither it nor a parent is a file) and with the draft
\* checkpoint existing when one is given, run_export spawns exactly the
\* command [<toolkit>/venv/bin/python, -m, export.export_fmadapter,
\* --adapter-name, <name>, --checkpoint, <absolute checkpoint>, --output-dir,
\* <absolute output dir>] with --draft-checkpoint, --author and --description
\* each present iff given, in the toolkit directory
C10_ExportCommand ==
    ( /\ ExportReady
      /\ inv.args.output_dir # <<>>
      /\ ~MkdirRaises(resolve(expanduser(inv.args.output_dir)))
      /\ inv.args.draft_checkpoint # <<>> =>
             exists(resolve(expanduser(inv.args.draft_checkpoint))) ) =>
        ExportSpawnsExpected

C10_Witness ==
    /\ ExportReady
    /\ inv.args.checkpoint = <<"~", "ckpt.pt">>
    /\ inv.args.draft_checkpoint # <<>>
    /\ inv.args.author # <<>>
    /\ inv.args.description = <<>>
    /\ inv.cmds = <<ExpectedExportCmd>>
    /\ Len(inv.cmds[1]) = 13

C10_WitnessPlain ==
    /\ ExportReady
    /\ inv.args.draft_checkpoint = <<>>
    /\ inv.args.author = <<>>
    /\ inv.cmds = <<ExpectedExportCmd>>
    /\ Len(inv.cmds[1]) = 9

\* the paths the input flags of a run name, as far as they were supplied
SuppliedInputPaths(run) ==
    LET Given(flags) == { run.args[f] : f \in flags } \ {<<>>} IN
    IF run.command = "generate" THEN Given({"checkpoint", "draft_checkpoint"})
    ELSE IF run.command = "export" THEN Given({"checkpoint", "draft_checkpoint"})
    ELSE IF run.command = "train-draft"
      THEN Given({"checkpoint", "train_data", "eval_data"})
    ELSE IF run.command = "train-adapter" /\ ~run.args.demo
      THEN Given({"train_data", "eval_data"})
    ELSE {}

\* C13: a command spawns its child only when every path named by a supplied
\* input flag (--checkpoint, --draft-checkpoint, --train-data, --eval-data)
\* exists; with such a path missing it aborts and spawns nothing
C13_SpawnOnlyWithExistingInputs ==
    (inv.command \in RelayCommands /\ inv.cmds # <<>>) =>
        \A p \in SuppliedInputPaths(inv) : exists(resolve(expanduser(p)))

\* the toolkit is configured and its venv python exists
ToolkitReady ==
    /\ get_toolkit_path.kind = "path"
    /\ get_toolkit_path.path # <<>>
    /\ exists(get_toolkit_path.path \o <<"venv", "bin", "python">>)

C14_WitnessNotConfigured ==
    /\ inv.command = "export"
    /\ inv.abort = "not_configured"
    /\ inv.cmds = <<>>
    /\ inv.args.output_dir = <<"out">>
    /\ ~exists(Append(Cwd, "out"))

TrainingCommands == {"train-adapter", "train-draft"}

\* the checkpoint directory a training run uses, given the toolkit path
CheckpointDirOf(run, toolkit_path) ==
    IF run.command = "train-adapter" /\ run.args.demo
      THEN resolve(toolkit_path \o <<"checkpoints", DemoCheckpointName>>)
      ELSE resolve(expanduser(run.args.checkpoint_dir))

ChildFailed(child) ==
    \/ child.kind = "exit" /\ child.code # 0
    \/ child.kind \in {"TimeoutExpired", "KeyboardInterrupt"}

C15_WitnessKept ==
    /\ inv.command = "train-adapter"
    /\ inv.args.demo
    /\ inv.child = [kind |-> "exit", code |-> 0]
    /\ fs[T \o <<"checkpoints", DemoCheckpointName>>] = "dir"

\* the timeout each command gives its child, in seconds
FixedTimeout(command) ==
    IF command \in {"demo", "generate"} THEN 5 * 60
    ELSE IF command = "export" THEN 30 * 60
    ELSE 24 * 60 * 60

ChildNotCompleted(child) ==
    child.kind \in {"TimeoutExpired", "KeyboardInterrupt", "FileNotFoundError",
                    "PermissionError", "OSError"}

\* C16: every child runs with the fixed timeout of its command (generation and
\* demo 5 minutes, export 30 minutes, training 24 hours), and when the child
\* times out, is interrupted from the keyboard or cannot be started, the
\* command returns 1 and the process exits with 1
C16_TimeoutsAndAbortsReturnOne ==
    (inv.command \in RelayCommands /\ inv.cmds # <<>>) =>
        /\ inv.timeout = FixedTimeout(inv.command)
        /\ ChildNotCompleted(inv.child) =>
              (inv.ret = ReturnInt(1) /\ inv.status = 1)

C16_Witness ==
    /\ inv.command = "generate"
    /\ inv.child.kind = "TimeoutExpired"
    /\ inv.timeout = 300
    /\ inv.status = 1

C16_WitnessNotStarted ==
    /\ inv.command = "train-draft"
    /\ inv.child.kind = "PermissionError"
    /\ inv.timeout = 86400
    /\ inv.status = 1

\* C19: a checkpoint directory that existed when train-adapter or train-draft
\* started still exists when the run ends, in both modes and whatever the
\* child did
C19_ExistingCheckpointDirKept ==
    [][ (inv'.command \in TrainingCommands /\ inv'.cmds # <<>>) =>
          LET dir == CheckpointDirOf(inv', get_toolkit_path.path) IN
          fs[dir] = "dir" => fs'[dir] = "dir" ]_vars

\* C20: when export, train-adapter or train-draft aborts on an input check
\* (required flag missing, path missing or unreadable) it has created no
\* directory
C20_NoDirectoryOnValidationAbort ==
    [][ ( /\ inv'.command \in {"export", "train-adapter", "train-draft"}
          /\ inv'.abort \in {"flag_required", "path_missing", "not_readable"} ) =>
            fs' = fs ]_vars

\* C17: load_config always returns a mapping and never raises, whatever the
\* config file holds
C17_LoadAlwaysReturnsMapping == lastOp = "load" => loadRes.kind = "dict"

\* a path with ~ expanded and made absolute
Normalised(p) == is_absolute(p) /\ (\A i \in 1..Len(p) : p[i] # "~")

\* the toolkit_path string the config file holds, <<>> when it holds none
StoredToolkitPath ==
    IF get_toolkit_path.kind = "path" THEN get_toolkit_path.path ELSE <<>>

\* C12: set_toolkit_path(p) stores the ~-expanded absolute form of p,
\* get_toolkit_path() returns a ~-expanded absolute path for every
\* toolkit_path string the config file holds, and therefore
\* set_toolkit_path(get_toolkit_path()) leaves the config as it is
C12_AccessorsNormalise ==
    /\ (acc.op = "set" /\ acc.res.kind = "ok") =>
          (StoredToolkitPath = resolve(expanduser(acc.arg)) /\ Normalised(StoredToolkitPath))
    /\ (acc.op = "get" /\ acc.res.kind = "path") => Normalised(acc.res.path)
    /\ get_toolkit_path.kind = "path" =>
          SetToolkitPathOf(configFile, get_toolkit_path.path).file = configFile

\* the paths under the toolkit that a step changed
ChangedUnder(toolkit_path) ==
    { p \in DOMAIN fs : IsPrefix(resolve(toolkit_path), p) /\ fs'[p] # fs[p] }

\* C11 as stated: no command creates, changes or deletes anything under the
\* configured toolkit path
C11_ToolkitOnlyRead ==
    [][ (fs' # fs /\ get_toolkit_path.kind = "path") =>
            ChangedUnder(get_toolkit_path.path) = {} ]_vars

\* the directories a run may create or remove, given the toolkit path
OwnDirectories(run, toolkit_path) ==
    IF run.command = "setup" THEN { resolve(Append(toolkit_path, "venv")) }
    ELSE IF run.command = "train-adapter" /\ run.args.demo
      THEN { resolve(Append(toolkit_path, "checkpoints")) }
    ELSE IF run.command \in TrainingCommands
      THEN { resolve(expanduser(run.args.checkpoint_dir)) }
    ELSE IF run.command = "export"
      THEN { resolve(expanduser(run.args.output_dir)) }
    ELSE {}

\* C11: init, demo and generate change nothing under the configured toolkit
\* path; setup changes only <toolkit>/venv, train-adapter --demo only
\* <toolkit>/checkpoints, and export and the training commands only the
\* directory their --output-dir or --checkpoint-dir names, with its parents
C11_ToolkitWrites ==
    [][ (fs' # fs /\ get_toolkit_path.kind = "path") =>
            \A p \in ChangedUnder(get_toolkit_path.path) :
                \E own \in OwnDirectories(inv', get_toolkit_path.path) :
                    IsPrefix(own, p) \/ IsPrefix(p, own) ]_vars

C11_Witness ==
    /\ inv.command = "setup"
    /\ inv.abort = "none"
    /\ Len(inv.cmds) = 3
    /\ fs[VenvPython(T)] = "file"
    /\ fs[Append(T, "requirements.txt")] = "file"

C11_WitnessFlag ==
    /\ inv.command = "train-draft"
    /\ inv.child = [kind |-> "exit", code |-> 0]
    /\ fs[Append(T, "my_ckpts")] = "dir"

\* C18: a run of init that saves leaves in the config a toolkit_path that
\* validate_toolkit accepts, and every other run, of init or of another
\* command, leaves the toolkit_path of the config as it was
C18_OnlyInitWritesValidatedPaths ==
    [][ IF inv'.command = "init" /\ inv'.abort = "none"
          THEN /\ get_toolkit_path'.kind = "path"
               /\ ValidateToolkit(get_toolkit_path'.path).is_valid
          ELSE configFile' = configFile \/ get_toolkit_path' = get_toolkit_path ]_vars

C18_Witness ==
    /\ inv.command = "init"
    /\ inv.abort = "none"
    /\ inv.args.use_found = <<"n">>
    /\ StoredToolkitPath = OtherToolkit
    /\ ValidateToolkit(StoredToolkitPath).is_valid

C18_WitnessFound ==
    /\ inv.command = "init"
    /\ inv.abort = "none"
    /\ inv.args.use_found = <<"y">>
    /\ StoredToolkitPath = ToolkitDir

(***************************************************************************)
(* run_init and the config.                                                *)
(***************************************************************************)
\* the config as load_config returns it from a CONFIG_FILE f
ConfigOf(f) == LoadOf(f).res

\* a manual entry the loop of run_init turns down: empty, unresolvable or
\* failing validate_toolkit
Rejected(entry) ==
    LET toolkit_input == Strip(entry) IN
    \/ toolkit_input = <<>>
    \/ ResolveRaises(toolkit_input)
    \/ ~ValidateToolkit(resolve(expanduser(toolkit_input))).is_valid

\* an init that saves nothing leaves the config as it was
InitKeepsUnlessSaved ==
    (inv'.command = "init" /\ inv'.abort # "none") =>
        ConfigOf(configFile') = ConfigOf(configFile)

\* the manual entry loop: every entry before the last prompt was turned down,
\* and the loop ends with a validated path saved or with the input cancelled
\* and the config as it was
InitManualLoop ==
    (inv'.command = "init" /\ inv'.prompts > 0) =>
        LET n == inv'.prompts
            entries == inv'.args.entries
        IN /\ n - 1 <= Len(entries)
           /\ \A i \in 1..(n - 1) : Rejected(entries[i])
           /\ IF inv'.abort = "none"
                THEN /\ n <= Len(entries)
                     /\ ~Rejected(entries[n])
                     /\ ValidateToolkit(inv'.saved).is_valid
                     /\ get_toolkit_path' = [kind |-> "path", path |-> inv'.saved]
                ELSE /\ inv'.abort = "cancelled"
                     /\ n = Len(entries) + 1
                     /\ ConfigOf(configFile') = ConfigOf(configFile)

C21_WitnessManual ==
    /\ inv.command = "init"
    /\ inv.prompts = 3
    /\ inv.abort = "none"
    /\ StoredToolkitPath = ToolkitDir

\* the manual entries run out and the input is cancelled
C21_WitnessCancelled ==
    /\ inv.command = "init"
    /\ inv.prompts = 3
    /\ inv.abort = "cancelled"

\* a configured toolkit replaced after the answer "Y"
C21_WitnessUpper ==
    /\ inv.command = "init"
    /\ inv.args.change = <<"Y">>
    /\ inv.searched
    /\ inv.abort = "none"

(***************************************************************************)
(* The numeric ranges of the training commands.                            *)
(***************************************************************************)
\* 1 <= epochs <= 100, learning rate > 0, 1 <= batch size <= 128 and
\* 0 <= warmup epochs <= epochs
InRange(args) ==
    /\ 1 <= args.epochs /\ args.epochs <= 100
    /\ FloatGtZero(args.learning_rate)
    /\ 1 <= args.batch_size /\ args.batch_size <= 128
    /\ 0 <= args.warmup_epochs.val /\ args.warmup_epochs.val <= args.epochs

\* C22: train-adapter and train-draft spawn the child and create a checkpoint
\* directory only when the numeric options are in range; otherwise the
\* command aborts before reading the config, before creating any directory
\* and without spawning a child
C22_NumericRangesGuardTraining ==
    [][ (inv'.command \in TrainingCommands /\ ~InRange(inv'.args)) =>
            /\ inv'.child = NoChild
            /\ inv'.cmds = <<>>
            /\ fs' = fs
            /\ configDir' = configDir /\ configFile' = configFile ]_vars

(***************************************************************************)
(* The adapter name of export.                                             *)
(***************************************************************************)
\* letters, digits and underscores only, between 1 and 255 characters
NameIsWord(name) ==
    /\ 1 <= Len(name) /\ Len(name) <= MAX_ADAPTER_NAME
    /\ \A i \in 1..Len(name) : name[i] \in WordChars

\* C23: export spawns its child only for an adapter name of 1 to 255 letters,
\* digits and underscores; every other name is rejected before the checkpoint
\* is examined, before the output directory is created and without a child
C23_AdapterNameGuardsExport ==
    [][ (inv'.command = "export" /\ ~NameIsWord(inv'.args.adapter_name)) =>
            /\ inv'.child = NoChild
            /\ inv'.cmds = <<>>
            /\ fs' = fs
            /\ inv'.abort \in {"raise", "not_configured", "no_venv",
                               "flag_required", "name_invalid"}
            /\ inv'.abort = "raise" => get_toolkit_path.kind = "raise" ]_vars

(***************************************************************************)
(* The child's options and the CLI flags.                                  *)
(***************************************************************************)
\* the flags add_generation_args, add_adapter_training_args and
\* add_draft_training_args declare, __main__.py lines 17-248
GenerationFlags ==
    {"--precision", "--temperature", "--top-k", "--max-new-tokens", "--batch-size",
     "--num-draft-tokens", "--compile-model"}

AdapterTrainingFlags ==
    {"--epochs", "--learning-rate", "--warmup-epochs", "--batch-size",
     "--gradient-accumulation-steps", "--activation-checkpointing", "--precision",
     "--compile-model", "--weight-decay", "--clip-grad-norm", "--max-sequence-length",
     "--fixed-sized-sequences", "--pack-sequences", "--loss-update-frequency",
     "--checkpoint-frequency"}

DraftTrainingFlags ==
    (AdapterTrainingFlags \ {"--precision", "--compile-model"})
      \cup {"--target-precision", "--compile-target-model", "--draft-precision",
            "--compile-draft-model"}

\* the flags of each subcommand's parser, __main__.py lines 294-425
CliFlags(command) ==
    IF command = "demo" THEN {"--prompt"} \cup GenerationFlags
    ELSE IF command = "generate"
      THEN {"--prompt", "--checkpoint", "--draft-checkpoint"} \cup GenerationFlags
    ELSE IF command = "train-adapter"
      THEN {"--demo", "--train-data", "--eval-data", "--checkpoint-dir"}
             \cup AdapterTrainingFlags
    ELSE IF command = "train-draft"
      THEN {"--checkpoint", "--train-data", "--eval-data", "--checkpoint-dir"}
             \cup DraftTrainingFlags
    ELSE {"--adapter-name", "--checkpoint", "--draft-checkpoint", "--output-dir",
          "--author", "--description"}

\* every word the commands put in front of a value or pass as a switch
OptionWords ==
    UNION { CliFlags(c) : c \in RelayCommands } \cup {"--num_draft_tokens"}

\* the options of a command line: what follows python -m <module>
OptionsOf(cmd) ==
    { cmd[i][1] : i \in { j \in 4..Len(cmd) : cmd[j] \in { W(o) : o \in OptionWords } } }

\* the value a command line gives an option, <<>> when the option is not there
ValueOf(cmd, option) ==
    IF \E i \in 4..(Len(cmd) - 1) : cmd[i] = W(option)
      THEN cmd[(CHOOSE i \in 4..(Len(cmd) - 1) : cmd[i] = W(option)) + 1]
      ELSE <<>>

\* the switches of each parser (action="store_true") and the field they set
Switches(command) ==
    IF command \in {"demo", "generate"}
      THEN { <<"--compile-model", "compile_model">> }
    ELSE IF command = "train-adapter"
      THEN { <<"--activation-checkpointing", "activation_checkpointing">>,
             <<"--compile-model", "compile_model">>,
             <<"--fixed-sized-sequences", "fixed_sized_sequences">>,
             <<"--pack-sequences", "pack_sequences">> }
    ELSE IF command = "train-draft"
      THEN { <<"--activation-checkpointing", "activation_checkpointing">>,
             <<"--compile-target-model", "compile_target_model">>,
             <<"--compile-draft-model", "compile_draft_model">>,
             <<"--fixed-sized-sequences", "fixed_sized_sequences">>,
             <<"--pack-sequences", "pack_sequences">> }
    ELSE {}

\* the integer options of the generation commands and the field they carry
GenerationIntOptions ==
    { <<"--top-k", "top_k">>, <<"--max-new-tokens", "max_new_tokens">>,
      <<"--batch-size", "batch_size">>, <<"--num-draft-tokens", "num_draft_tokens">> }

\* every option of the child's command line is a flag of the subcommand
OptionsAreCliFlags(run) == OptionsOf(run.cmds[1]) \subseteq CliFlags(run.command)

\* a switch is forwarded iff it was set
SwitchesMirrored(run) ==
    \A sw \in Switches(run.command) :
        (sw[1] \in OptionsOf(run.cmds[1])) <=> run.args[sw[2]]

\* a generation option that was parsed is forwarded under its name with its value
GenerationValuesMirrored(run) ==
    run.command \in {"demo", "generate"} =>
        /\ ValueOf(run.cmds[1], "--prompt") = run.args.prompt
        /\ ValueOf(run.cmds[1], "--precision") = run.args.precision
        /\ \A o \in GenerationIntOptions :
              ~run.args[o[2]].none =>
                  ValueOf(run.cmds[1], o[1]) = StrInt(run.args[o[2]].val)

\* C24: the child's option list mirrors the CLI flags: every option carries
\* the name of the flag it was parsed from and the parsed value, a switch is
\* forwarded iff it was set, and no option without a CLI counterpart is forwarded
C24_OptionsMirrorFlags ==
    (inv.command \in RelayCommands /\ inv.cmds # <<>>) =>
        /\ OptionsAreCliFlags(inv)
        /\ SwitchesMirrored(inv)
        /\ GenerationValuesMirrored(inv)

\* the same with --num-draft-tokens left aside: all other options mirror
C24_OptionsMirrorButDraftTokens ==
    (inv.command \in RelayCommands /\ inv.cmds # <<>>) =>
        /\ OptionsOf(inv.cmds[1]) \ {"--num_draft_tokens"} \subseteq CliFlags(inv.command)
        /\ SwitchesMirrored(inv)
        /\ ValueOf(inv.cmds[1], "--num_draft_tokens") =
              (IF inv.command \in {"demo", "generate"}
                 THEN StrInt(inv.args.num_draft_tokens.val) ELSE <<>>)

(***************************************************************************)
(* The steps of setup.                                                     *)
(***************************************************************************)
Succeeded(child) == child = [kind |-> "exit", code |-> 0]

\* the three steps of setup by what they run: python -m venv, python -m pip
\* install, python -c "import ..."
SetupStepsInOrder(run) ==
    /\ Len(run.cmds) <= 3
    /\ Len(run.children) = Len(run.cmds)
    /\ Len(run.cmds) >= 1 => run.cmds[1][3] = W("venv")
    /\ Len(run.cmds) >= 2 => run.cmds[2][3] = W("pip")
    /\ Len(run.cmds) >= 3 => run.cmds[3][2] = W("-c")
    \* a step runs only after every step before it succeeded
    /\ \A i \in 1..(Len(run.cmds) - 1) : Succeeded(run.children[i])

\* nothing runs without a configured toolkit holding requirements.txt; a
\* failed venv creation or install ends setup unfinished; a failed import
\* check still lets setup report completion
SetupStops(run) ==
    /\ (get_toolkit_path.kind # "path"
          \/ ~exists(Append(get_toolkit_path.path, "requirements.txt"))) =>
            run.cmds = <<>>
    /\ (Len(run.cmds) \in {1, 2} /\ ~Succeeded(run.children[Len(run.cmds)])) =>
            run.abort # "none"
    /\ run.abort = "none" =>
            /\ Len(run.cmds) = 3
            /\ Succeeded(run.children[1]) /\ Succeeded(run.children[2])
    /\ (Len(run.cmds) = 3 /\ run.children[3].kind = "CalledProcessError") =>
            run.abort = "none"

\* the interpreter setup installs into and validates is the one the other
\* commands require
SetupUsesVenvPython(run) ==
    \A i \in 2..Len(run.cmds) : run.cmds[i][1] = VenvPython(get_toolkit_path.path)

\* C25: setup runs venv creation, install and import validation in this
\* order, each only after the one before succeeded; it runs nothing without a
\* configured toolkit and requirements.txt; a failed import validation still
\* reports completion; and it installs into <toolkit>/venv/bin/python, the
\* interpreter the other commands require
C25_SetupStepsAndInterpreter ==
    inv.command = "setup" =>
        /\ SetupStepsInOrder(inv)
        /\ SetupStops(inv)
        /\ SetupUsesVenvPython(inv)

\* the order and the stops of setup alone, on every platform
C25_SetupOrder ==
    inv.command = "setup" => SetupStepsInOrder(inv) /\ SetupStops(inv)

\* a setup that completed, after which the interpreter the other commands
\* require is still missing
C25_SetupCompleteWithoutVenvPython ==
    /\ inv.command = "setup"
    /\ inv.abort = "none"
    /\ \A i \in 1..3 : Succeeded(inv.children[i])
    /\ ~exists(VenvPython(get_toolkit_path.path))

(***************************************************************************)
(* The temporary file of save_config.                                      *)
(***************************************************************************)
\* save_config returns or raises in this step
SaveEnds == pc # "idle" /\ pc' = "idle" /\ lastOp' \in {"save", "save_raised"}

\* C26: whenever save_config returns or raises, the temporary file it
\* created no longer exists, and when it raises CONFIG_FILE holds what it
\* held before the call
C26_NoTemporaryFileLeft ==
    [][ SaveEnds =>
          /\ ~tmpFile'.exists
          /\ staleTmp' = staleTmp
          /\ lastOp' = "save_raised" => configFile' = saveOld ]_vars

\* what does hold: a save that returns leaves no temporary file, and a save
\* that raises leaves CONFIG_FILE as it was
C26_ReturnLeavesNoTemporaryFile ==
    [][ SaveEnds =>
          /\ lastOp' = "save" => (~tmpFile'.exists /\ staleTmp' = staleTmp)
          /\ lastOp' = "save_raised" => configFile' = saveOld ]_vars

=============================================================================
